---- MODULE Spec2Model ----
(***************************************************************************)
(* State-machine model of the "Jurnal Medis" single-page application:      *)
(* the App component that owns the two entry collections and mirrors them  *)
(* to localStorage, the Dashboard / Analytics / Calendar views computed    *)
(* from them, the journal and mood forms, and the chat with its requests.  *)
(*                                                                         *)
(* Conventions                                                             *)
(*  - A calendar date 'YYYY-MM-DD' is a day number; an instant (a Date, an *)
(*    ISO timestamp) is a tick number, TicksPerDay ticks to the UTC day.   *)
(*    new Date('YYYY-MM-DD') is UTC midnight of that day (ParseDate), and  *)
(*    toISOString().split('T')[0] is the UTC day of an instant (ISODate).  *)
(*    Day 1 is 2024-01-01 and month 0 is January 2024.                     *)
(*    The browser's zone (tz) is a record: offset is local time minus UTC  *)
(*    in ticks, weekShift is the offset now minus the offset in force at   *)
(*    the same wall-clock time seven days ago, in hours (0 unless a        *)
(*    daylight-saving change fell within the week).                        *)
(*  - Hours (sleepHours, studyHours) are whole hours.                      *)
(*  - A quotient computed by the code is kept as an exact fraction         *)
(*    [num, den]; for the small integers involved the IEEE quotient and    *)
(*    the fraction compare alike against every integer threshold.  Where   *)
(*    the code rounds a double that falls short of a .5 tie the exact      *)
(*    quotient sits on, the rounding follows the double (RoundPercent).    *)
(*  - A JavaScript value held in a collection variable is tagged with its  *)
(*    kind, so that a value that is not an array can be told apart.        *)
(*  - React runs the passive effects of one commit in declaration order,   *)
(*    and applies the state updates they queue afterwards, in one          *)
(*    re-render.  The effects still pending are flushed before an event    *)
(*    handler's render, so a handler acts with no effect pending; it may   *)
(*    act before the re-render that applies the queued updates, and then   *)
(*    it renders the state of before them, and the re-render applies its   *)
(*    functional updates again, after the queued ones.                     *)
(*  - A component that is not rendered is unmounted and its state is gone; *)
(*    a state update for an unmounted component is dropped.                *)
(***************************************************************************)
EXTENDS Integers, Sequences, FiniteSets, TLC

VARIABLES
    journalEntries,  \* App state: useState<JournalEntry[]>
    moodEntries,     \* App state: useState<MoodEntry[]>
    activeTab,       \* App state: useState('dashboard')
    selectedDate,    \* App state: useState<string | null>
    lsJournal,       \* localStorage item 'journalEntries'
    lsMood,          \* localStorage item 'moodEntries'
    effects,         \* passive effects of the last commit still to run
    pending,         \* state updates queued by the load effect, not yet rendered
    crashed,         \* a render threw: the tree is unmounted
    boot,            \* what localStorage held at startup, until the first user event
    now,             \* the wall clock, in ticks
    dash,            \* what the mounted Dashboard computed at its last render
    analytics,       \* what the mounted Analytics view computed at its last render
    journalForm,     \* JournalEntryForm state: useState<Partial<JournalEntry>>
    tz,              \* the browser's timezone: local time minus UTC, in ticks
    calendar,        \* CalendarView: the month of currentDate and the cells rendered
    moodForm,        \* MoodTracker state: useState<MoodEntry>
    chat             \* AIChatbot state, its requests in flight and its localStorage item

vars == <<journalEntries, moodEntries, activeTab, selectedDate, lsJournal,
          lsMood, effects, pending, crashed, boot, now, dash, analytics,
          journalForm, tz, calendar, moodForm, chat>>

-----------------------------------------------------------------------------
(* Bounds of the model *)

MaxJournalId == 3
MaxMoodId == 3
MaxDashJournal == 2
MaxDashMood == 3
Today0 == 8
MaxAlertJournal == 1
MaxAlertRun == 4
MaxLongRun == 99
MaxAnaJournal == 2
MaxAnaMood == 3
MaxTrendDates == 32
MaxCalJournal == 2
MaxCalMood == 3
MaxCalMonths == 1

\* Events handled between the load effect and the re-render of its updates
MaxWindowEvents == 4

\* Mood entries in the store of the mood-form runs
MaxMoodSubmits == 2

\* Messages sent in the chat runs
MaxChatTurns == 2

\* medications a journal form may list (a blank form lists two)
MaxMedications == 3

(* Program constants *)

WindowDays == 7
TrendDays == 30
AdherenceEntries == 7

-----------------------------------------------------------------------------
(* Time *)

TimesOfDay == {0, 1}
TicksPerDay == Cardinality(TimesOfDay)

\* new Date('YYYY-MM-DD'): the instant of UTC midnight of that day
ParseDate(d) == d * TicksPerDay

\* new Date(t).toISOString().split('T')[0]: the UTC day of an instant
ISODate(t) == t \div TicksPerDay

-----------------------------------------------------------------------------
(* Entries *)

JournalIds == 1..MaxJournalId

\* sleepQuality is 5, the value of a blank form, unless the form changes it
NewJournalEntry(i, d, sl, st, meds) ==
    [id |-> i, date |-> d, sleepHours |-> sl, sleepQuality |-> 5, studyHours |-> st,
     medications |-> meds]

NewMoodEntry(i, ts, m, a, e, s, sym) ==
    [id |-> i, timestamp |-> ts, mood |-> m, anxiety |-> a, energy |-> e,
     stress |-> s, psychoticSymptoms |-> sym]

-----------------------------------------------------------------------------
(* JavaScript values and their JSON text *)

JArr(s) == [kind |-> "array", items |-> s]
JNull == [kind |-> "null", items |-> <<>>]
JObject == [kind |-> "object", items |-> <<>>]

IsArray(v) == v.kind = "array"

\* localStorage.getItem: null (absent), or a string
Absent == [tag |-> "absent", val |-> JNull]
Garbage == [tag |-> "garbage", val |-> JNull]

\* JSON.stringify(v)
JSONStringify(v) == [tag |-> "json", val |-> v]

\* JSON.parse(s) throws a SyntaxError unless s is JSON text
JSONParseThrows(s) == s.tag # "json"
JSONParse(s) == s.val

\* if (saved) ...: null is falsy, a non-empty string is truthy
Truthy(s) == s.tag # "absent"

\* a queued state update: the value it gives, or that replaying a later
\* updater function on that value throws.  Once an updater function waits
\* behind it (replays), every render of the App applies that function again
\* to the state of before the update, and shows a new array of the entries
\* in shown.
NoUpdate ==
    [set |-> FALSE, val |-> JNull, throws |-> FALSE, replays |-> FALSE, shown |-> <<>>]
Update(v) ==
    [set |-> TRUE, val |-> v, throws |-> FALSE, replays |-> FALSE, shown |-> <<>>]

BootCleared == [journal |-> Absent, mood |-> Absent, live |-> FALSE]

-----------------------------------------------------------------------------
(* The entry store: insert-or-replace by id (App.handleSave*Entry updater) *)

\* (variant) a search that starts at the second element
FindIndexSkipsFirst(prevEntries, id) ==
    IF \E i \in 2..Len(prevEntries) : prevEntries[i].id = id
    THEN (CHOOSE i \in 2..Len(prevEntries) :
             /\ prevEntries[i].id = id
             /\ \A j \in 2..(i - 1) : prevEntries[j].id # id) - 1
    ELSE -1

\* prevEntries.findIndex(e => e.id === id): the 0-based index of the first
\* match, -1 when there is none
FindIndex(prevEntries, id) ==
    IF \E i \in 1..Len(prevEntries) : prevEntries[i].id = id
    THEN (CHOOSE i \in 1..Len(prevEntries) :
             /\ prevEntries[i].id = id
             /\ \A j \in 1..(i - 1) : prevEntries[j].id # id) - 1
    ELSE -1

\* (variant) drop the old entry and push the new one at the end
UpsertMoveToEnd(prevEntries, entry) ==
    LET Other(e) == e.id # entry.id
    IN  Append(SelectSeq(prevEntries, Other), entry)

\* (variant) push without looking for the id
UpsertAlwaysAppend(prevEntries, entry) == Append(prevEntries, entry)

\* (variant) a new entry goes to the front
UpsertPrepend(prevEntries, entry) ==
    LET existingIndex == FindIndex(prevEntries, entry.id)
    IN  IF existingIndex >= 0
        THEN [prevEntries EXCEPT ![existingIndex + 1] = entry]
        ELSE <<entry>> \o prevEntries

\* the updater passed to setJournalEntries / setMoodEntries
Upsert(prevEntries, entry) ==
    LET existingIndex == FindIndex(prevEntries, entry.id)
    IN  IF existingIndex >= 0
        THEN [prevEntries EXCEPT ![existingIndex + 1] = entry]
        ELSE Append(prevEntries, entry)

-----------------------------------------------------------------------------
(* Analytics: journalEntries.sort((a, b) => getTime(a.date) - getTime(b.date)) *)

\* Array.prototype.sort is stable: e goes after every entry that is not later
RECURSIVE InsertByDate(_, _)
InsertByDate(s, e) ==
    IF s = <<>> THEN <<e>>
    ELSE IF ParseDate(s[Len(s)].date) - ParseDate(e.date) <= 0
         THEN Append(s, e)
         ELSE Append(InsertByDate(SubSeq(s, 1, Len(s) - 1), e), s[Len(s)])

RECURSIVE SortByDate(_)
SortByDate(s) ==
    IF s = <<>> THEN <<>>
    ELSE InsertByDate(SortByDate(SubSeq(s, 1, Len(s) - 1)), s[Len(s)])

\* What rendering Analytics leaves in the array it was handed: sort() sorts
\* the array in place, and the array is the App's state object.
AnalyticsJournalAfterRender(entries) == SortByDate(entries)

-----------------------------------------------------------------------------
(* Dashboard *)

Frac(n, d) == [num |-> n, den |-> d]
Zero == Frac(0, 1)

\* s.reduce((sum, entry) => sum + entry[k], 0): a left fold from 0
ReduceField(s, k) ==
    LET sum[i \in 0..Len(s)] == IF i = 0 THEN 0 ELSE sum[i - 1] + s[i][k]
    IN  sum[Len(s)]

\* Comparisons of a quotient (its denominator is positive) with an integer
Lt(f, n) == f.num < n * f.den
Gt(f, n) == f.num > n * f.den
Le(f, n) == f.num <= n * f.den
Ge(f, n) == f.num >= n * f.den
Eq(f, n) == f.num = n * f.den

\* Offsets of the zones drawn: UTC-12, UTC and UTC+12
TZOffsets == {0 - 1, 0, 1}

\* the zone of a browser that runs on UTC
UTC == [offset |-> 0, weekShift |-> 0]

\* weekAgo = new Date(); weekAgo.setDate(weekAgo.getDate() - 7): setDate works
\* on the local date, so weekAgo is the instant with the wall-clock time of
\* now seven local days earlier.  It is now minus seven days when the zone's
\* offset was the same then, and later (earlier) by the difference when the
\* offset has grown (shrunk) since.  In ticks, as a quotient of hours.
WeekAgo(t, zone) ==
    LET HoursPerTick == 24 \div TicksPerDay
    IN  Frac((t - WindowDays * TicksPerDay) * HoursPerTick + zone.weekShift,
             HoursPerTick)

\* entryDate >= weekAgo, entryDate = new Date(entry.date)
RecentJournalEntries(entries, t, zone) ==
    LET Keep(entry) == Le(WeekAgo(t, zone), ParseDate(entry.date))
    IN  SelectSeq(entries, Keep)

\* entryDate >= weekAgo, entryDate = new Date(entry.timestamp)
RecentMoodEntries(entries, t, zone) ==
    LET Keep(entry) == Le(WeekAgo(t, zone), entry.timestamp)
    IN  SelectSeq(entries, Keep)

\* (variant) the sum spread over the days of the window
AveragePerDay(recent, k) ==
    IF Len(recent) > 0 THEN Frac(ReduceField(recent, k), WindowDays) ELSE Zero

\* recent.length > 0 ? recent.reduce((sum, entry) => sum + entry[k], 0) / recent.length : 0
Average(recent, k) ==
    IF Len(recent) > 0 THEN Frac(ReduceField(recent, k), Len(recent)) ELSE Zero

\* recent.reduce((sum, entry) => sum + entry.medications.length, 0)
TotalMeds(recent) ==
    LET sum[i \in 0..Len(recent)] ==
            IF i = 0 THEN 0 ELSE sum[i - 1] + Len(recent[i].medications)
    IN  sum[Len(recent)]

\* recent.reduce((sum, entry) => sum + entry.medications.filter(med => med.taken).length, 0)
TakenMeds(recent) ==
    LET Taken(med) == med
        sum[i \in 0..Len(recent)] ==
            IF i = 0 THEN 0 ELSE sum[i - 1] + Len(SelectSeq(recent[i].medications, Taken))
    IN  sum[Len(recent)]

\* {cond && (<div>...</div>)}: the element is rendered when cond holds
Shown(cond, alert) == IF cond THEN <<alert>> ELSE <<>>

\* (variant) an else-if chain: the first rule that holds is the only one shown
AlertsFirstOnly(avgMood, avgAnxiety, avgSleep, medicationAdherence, totalMeds, psychoticSymptomDays, moodCount) ==
    IF Lt(avgMood, 4) THEN <<"Low mood">>
    ELSE IF Gt(avgAnxiety, 7) THEN <<"High anxiety">>
    ELSE IF Lt(avgSleep, 6) THEN <<"Sleep deficit">>
    ELSE IF Lt(medicationAdherence, 80) /\ totalMeds > 0 THEN <<"Low adherence">>
    ELSE IF psychoticSymptomDays > 3 THEN <<"Psychotic-symptom frequency">>
    ELSE IF Ge(avgMood, 7) /\ Le(avgAnxiety, 3) /\ Ge(avgSleep, 7)
            /\ Ge(medicationAdherence, 90) THEN <<"All-clear">>
    ELSE Shown(Eq(avgMood, 0) /\ Eq(avgAnxiety, 0) /\ moodCount = 0, "No-data")

\* (variant) avgAnxiety >= 7
AlertsAnxietyAtSeven(avgMood, avgAnxiety, avgSleep, medicationAdherence, totalMeds, psychoticSymptomDays, moodCount) ==
    Shown(Lt(avgMood, 4), "Low mood")
    \o Shown(Ge(avgAnxiety, 7), "High anxiety")
    \o Shown(Lt(avgSleep, 6), "Sleep deficit")
    \o Shown(Lt(medicationAdherence, 80) /\ totalMeds > 0, "Low adherence")
    \o Shown(psychoticSymptomDays > 3, "Psychotic-symptom frequency")
    \o Shown(Ge(avgMood, 7) /\ Le(avgAnxiety, 3) /\ Ge(avgSleep, 7)
             /\ Ge(medicationAdherence, 90), "All-clear")
    \o Shown(Eq(avgMood, 0) /\ Eq(avgAnxiety, 0) /\ moodCount = 0, "No-data")

\* (variant) medicationAdherence <= 80
AlertsAdherenceAtEighty(avgMood, avgAnxiety, avgSleep, medicationAdherence, totalMeds, psychoticSymptomDays, moodCount) ==
    Shown(Lt(avgMood, 4), "Low mood")
    \o Shown(Gt(avgAnxiety, 7), "High anxiety")
    \o Shown(Lt(avgSleep, 6), "Sleep deficit")
    \o Shown(Le(medicationAdherence, 80) /\ totalMeds > 0, "Low adherence")
    \o Shown(psychoticSymptomDays > 3, "Psychotic-symptom frequency")
    \o Shown(Ge(avgMood, 7) /\ Le(avgAnxiety, 3) /\ Ge(avgSleep, 7)
             /\ Ge(medicationAdherence, 90), "All-clear")
    \o Shown(Eq(avgMood, 0) /\ Eq(avgAnxiety, 0) /\ moodCount = 0, "No-data")

\* (variant) the No-data rule without recentMoodEntries.length === 0
AlertsNoDataByMeans(avgMood, avgAnxiety, avgSleep, medicationAdherence, totalMeds, psychoticSymptomDays, moodCount) ==
    Shown(Lt(avgMood, 4), "Low mood")
    \o Shown(Gt(avgAnxiety, 7), "High anxiety")
    \o Shown(Lt(avgSleep, 6), "Sleep deficit")
    \o Shown(Lt(medicationAdherence, 80) /\ totalMeds > 0, "Low adherence")
    \o Shown(psychoticSymptomDays > 3, "Psychotic-symptom frequency")
    \o Shown(Ge(avgMood, 7) /\ Le(avgAnxiety, 3) /\ Ge(avgSleep, 7)
             /\ Ge(medicationAdherence, 90), "All-clear")
    \o Shown(Eq(avgMood, 0) /\ Eq(avgAnxiety, 0), "No-data")

\* (variant) the Low mood rule leaves out a mean of exactly 0
AlertsLowMoodAboveZero(avgMood, avgAnxiety, avgSleep, medicationAdherence, totalMeds, psychoticSymptomDays, moodCount) ==
    Shown(Lt(avgMood, 4) /\ Gt(avgMood, 0), "Low mood")
    \o Shown(Gt(avgAnxiety, 7), "High anxiety")
    \o Shown(Lt(avgSleep, 6), "Sleep deficit")
    \o Shown(Lt(medicationAdherence, 80) /\ totalMeds > 0, "Low adherence")
    \o Shown(psychoticSymptomDays > 3, "Psychotic-symptom frequency")
    \o Shown(Ge(avgMood, 7) /\ Le(avgAnxiety, 3) /\ Ge(avgSleep, 7)
             /\ Ge(medicationAdherence, 90), "All-clear")
    \o Shown(Eq(avgMood, 0) /\ Eq(avgAnxiety, 0) /\ moodCount = 0, "No-data")

\* (variant) the Low mood rule asks for a mood entry in the window
AlertsLowMoodNeedsData(avgMood, avgAnxiety, avgSleep, medicationAdherence, totalMeds, psychoticSymptomDays, moodCount) ==
    Shown(Lt(avgMood, 4) /\ moodCount > 0, "Low mood")
    \o Shown(Gt(avgAnxiety, 7), "High anxiety")
    \o Shown(Lt(avgSleep, 6), "Sleep deficit")
    \o Shown(Lt(medicationAdherence, 80) /\ totalMeds > 0, "Low adherence")
    \o Shown(psychoticSymptomDays > 3, "Psychotic-symptom frequency")
    \o Shown(Ge(avgMood, 7) /\ Le(avgAnxiety, 3) /\ Ge(avgSleep, 7)
             /\ Ge(medicationAdherence, 90), "All-clear")
    \o Shown(Eq(avgMood, 0) /\ Eq(avgAnxiety, 0) /\ moodCount = 0, "No-data")

\* The "Peringatan Kesehatan" card: seven conditional elements, in this order
Alerts(avgMood, avgAnxiety, avgSleep, medicationAdherence, totalMeds, psychoticSymptomDays, moodCount) ==
    Shown(Lt(avgMood, 4), "Low mood")
    \o Shown(Gt(avgAnxiety, 7), "High anxiety")
    \o Shown(Lt(avgSleep, 6), "Sleep deficit")
    \o Shown(Lt(medicationAdherence, 80) /\ totalMeds > 0, "Low adherence")
    \o Shown(psychoticSymptomDays > 3, "Psychotic-symptom frequency")
    \o Shown(Ge(avgMood, 7) /\ Le(avgAnxiety, 3) /\ Ge(avgSleep, 7)
             /\ Ge(medicationAdherence, 90), "All-clear")
    \o Shown(Eq(avgMood, 0) /\ Eq(avgAnxiety, 0) /\ moodCount = 0, "No-data")

Dashboard(journal, mood, t, zone) ==
    LET recentJournalEntries == RecentJournalEntries(journal, t, zone)
        recentMoodEntries == RecentMoodEntries(mood, t, zone)
        HasSymptoms(e) == Len(e.psychoticSymptoms) > 0
        avgMood == Average(recentMoodEntries, "mood")
        avgAnxiety == Average(recentMoodEntries, "anxiety")
        avgSleep == Average(recentJournalEntries, "sleepHours")
        totalMeds == TotalMeds(recentJournalEntries)
        takenMeds == TakenMeds(recentJournalEntries)
        medicationAdherence ==
            IF totalMeds > 0 THEN Frac(takenMeds * 100, totalMeds) ELSE Zero
        psychoticSymptomDays == Len(SelectSeq(recentMoodEntries, HasSymptoms))
    IN  [rendered |-> TRUE,
         recentJournalEntries |-> recentJournalEntries,
         recentMoodEntries |-> recentMoodEntries,
         avgMood |-> avgMood,
         avgAnxiety |-> avgAnxiety,
         avgEnergy |-> Average(recentMoodEntries, "energy"),
         avgStress |-> Average(recentMoodEntries, "stress"),
         avgSleep |-> avgSleep,
         avgStudy |-> Average(recentJournalEntries, "studyHours"),
         totalMeds |-> totalMeds,
         takenMeds |-> takenMeds,
         medicationAdherence |-> medicationAdherence,
         psychoticSymptomDays |-> psychoticSymptomDays,
         alerts |-> Alerts(avgMood, avgAnxiety, avgSleep, medicationAdherence,
                           totalMeds, psychoticSymptomDays, Len(recentMoodEntries))]

NotRendered ==
    [rendered |-> FALSE,
     recentJournalEntries |-> <<>>, recentMoodEntries |-> <<>>,
     avgMood |-> Zero, avgAnxiety |-> Zero, avgEnergy |-> Zero, avgStress |-> Zero,
     avgSleep |-> Zero, avgStudy |-> Zero, totalMeds |-> 0, takenMeds |-> 0,
     medicationAdherence |-> Zero, psychoticSymptomDays |-> 0, alerts |-> <<>>]

-----------------------------------------------------------------------------
(* Analytics *)

\* Math.round of a quotient that is not negative: the nearest integer, a
\* half going up
Round(f) == (2 * f.num + f.den) \div (2 * f.den)

\* Math.round(x * 10) / 10
Round1(f) == Frac(Round(Frac(f.num * 10, f.den)), 10)

\* s.slice(-n): the last n elements, all of them when there are fewer
Slice(s, n) == SubSeq(s, IF Len(s) > n THEN Len(s) - n + 1 ELSE 1, Len(s))

\* (variant) a day keeps only its latest entry
GroupPushLatest(acc, entry) ==
    LET date == ISODate(entry.timestamp)
    IN  IF \E i \in 1..Len(acc) : acc[i].date = date
        THEN [i \in 1..Len(acc) |->
                 IF acc[i].date = date
                 THEN [acc[i] EXCEPT !.entries = <<entry>>]
                 ELSE acc[i]]
        ELSE Append(acc, [date |-> date, entries |-> <<entry>>])

\* One step of the reduce that groups by day: acc[date] is created on the
\* first entry of that day and the entry pushed onto it.  An object lists
\* its string keys in the order of their creation.
GroupPush(acc, entry) ==
    LET date == ISODate(entry.timestamp)
    IN  IF \E i \in 1..Len(acc) : acc[i].date = date
        THEN [i \in 1..Len(acc) |->
                 IF acc[i].date = date
                 THEN [acc[i] EXCEPT !.entries = Append(@, entry)]
                 ELSE acc[i]]
        ELSE Append(acc, [date |-> date, entries |-> <<entry>>])

\* moodByDate, as Object.entries lists it
MoodByDate(mood) ==
    LET acc[i \in 0..Len(mood)] ==
            IF i = 0 THEN <<>> ELSE GroupPush(acc[i - 1], mood[i])
    IN  acc[Len(mood)]

\* (variant) the first days are kept
TrendWindowOldest(groups) ==
    SubSeq(SortByDate(groups), 1, IF Len(groups) > TrendDays THEN TrendDays ELSE Len(groups))

\* Object.entries(moodByDate).sort(([a], [b]) => getTime(a) - getTime(b)).slice(-30)
TrendWindow(groups) == Slice(SortByDate(groups), TrendDays)

\* One point of the mood trend.  key is the day the point stands for; the
\* chart labels it with the day and month of that date.
MoodTrendPoint(g) ==
    [key |-> g.date,
     mood |-> Round1(Frac(ReduceField(g.entries, "mood"), Len(g.entries))),
     anxiety |-> Round1(Frac(ReduceField(g.entries, "anxiety"), Len(g.entries))),
     energy |-> Round1(Frac(ReduceField(g.entries, "energy"), Len(g.entries))),
     stress |-> Round1(Frac(ReduceField(g.entries, "stress"), Len(g.entries))),
     count |-> Len(g.entries)]

MoodTrendData(groups) ==
    LET window == TrendWindow(groups)
    IN  [i \in 1..Len(window) |-> MoodTrendPoint(window[i])]

\* Math.round((takenMeds / totalMeds) * 100) on doubles.  The product is the
\* double nearest to the percentage but for the quotients 23/40, 29/200,
\* 57/200 and 113/200: their percentage ends in .5, the double of the
\* quotient is below it and the product comes out just under the tie, so
\* Math.round gives one less (23 of 40: 57.49999999999999 -> 57).
RoundPercent(takenMeds, totalMeds) ==
    LET TiesBelow == {<<23, 40>>, <<29, 200>>, <<57, 200>>, <<113, 200>>}
        exact == Round(Frac(takenMeds * 100, totalMeds))
    IN  IF \E q \in TiesBelow : takenMeds * q[2] = totalMeds * q[1]
        THEN exact - 1
        ELSE exact

\* new Date(t).toLocaleDateString('id-ID', {day: 'numeric', month: 'short'}):
\* the day and month of the instant in local time.  Within one year the label
\* tells the local days apart, and it is kept as the local day.
LocalDateLabel(t, zone) == ISODate(t + zone.offset)

\* journalEntries.slice(-7).map(entry => ({date, adherence: Math.round(adherence)}))
\* over the array that journalTrendData has just sorted
MedicationData(journal, zone) ==
    LET last == Slice(journal, AdherenceEntries)
    IN  [i \in 1..Len(last) |->
            LET totalMeds == TotalMeds(<<last[i]>>)
                takenMeds == TakenMeds(<<last[i]>>)
            IN  [date |-> LocalDateLabel(ParseDate(last[i].date), zone),
                 adherence |-> IF totalMeds > 0
                               THEN RoundPercent(takenMeds, totalMeds)
                               ELSE Round(Zero)]]

\* The "Rata-rata Kepatuhan" figure: the rounded mean of the points
WeeklyAdherence(medicationData) ==
    IF Len(medicationData) > 0
    THEN Round(Frac(ReduceField(medicationData, "adherence"), Len(medicationData)))
    ELSE 0

Analytics(journal, mood, zone) ==
    LET sorted == AnalyticsJournalAfterRender(journal)
        moodByDate == MoodByDate(mood)
        medicationData == MedicationData(sorted, zone)
    IN  [rendered |-> TRUE,
         moodByDate |-> moodByDate,
         moodTrendData |-> MoodTrendData(moodByDate),
         medicationData |-> medicationData,
         weeklyAdherence |-> WeeklyAdherence(medicationData)]

AnalyticsNotRendered ==
    [rendered |-> FALSE, moodByDate |-> <<>>, moodTrendData |-> <<>>,
     medicationData |-> <<>>, weeklyAdherence |-> 0]

-----------------------------------------------------------------------------
(* App: rendering *)

Tabs == {"dashboard", "mood", "journal", "chatbot", "calendar", "analytics"}

\* selectedDate === null
NoDate == 0 - 1

\* new Date().toISOString().split('T')[0]
Today(t) == ISODate(t)

\* Does rendering the App with these collections throw?  Every view but the
\* mood tracker and the chatbot calls an array method (find, filter, reduce,
\* sort, slice) on the collections it is handed; the journal tab calls
\* journalEntries.find only when a date is selected.
RenderThrows(tab, sel, journal, mood) ==
    CASE tab \in {"dashboard", "calendar", "analytics"} ->
             ~IsArray(journal) \/ ~IsArray(mood)
      [] tab = "journal" -> sel # NoDate /\ ~IsArray(journal)
      [] OTHER -> FALSE

\* The journal collection after the active view has rendered
RenderJournal(tab, journal) ==
    IF tab = "analytics" /\ IsArray(journal)
    THEN JArr(AnalyticsJournalAfterRender(journal.items))
    ELSE journal

\* What the Dashboard shows after the render, if it is the active view
RenderDash(tab, journal, mood, t, zone) ==
    IF tab = "dashboard" /\ IsArray(journal) /\ IsArray(mood)
    THEN Dashboard(journal.items, mood.items, t, zone)
    ELSE NotRendered

\* What Analytics shows after the render, if it is the active view
RenderAnalytics(tab, journal, mood, zone) ==
    IF tab = "analytics" /\ IsArray(journal) /\ IsArray(mood)
    THEN Analytics(journal.items, mood.items, zone)
    ELSE AnalyticsNotRendered

-----------------------------------------------------------------------------
(* The journal form *)

\* existingEntry is undefined, and so is its id
NoId == 0

\* journalEntries.find(entry => entry.date === selectedDate)
GetSelectedJournalEntry(journal, sel) ==
    IF \E i \in 1..Len(journal) : journal[i].date = sel
    THEN [found |-> TRUE,
          entry |-> journal[CHOOSE i \in 1..Len(journal) :
                               /\ journal[i].date = sel
                               /\ \A j \in 1..(i - 1) : journal[j].date # sel]]
    ELSE [found |-> FALSE, entry |-> NewJournalEntry(NoId, NoDate, 0, 0, <<>>)]

\* useState initializer: the existing entry, or a blank entry dated today
JournalEntryFormInit(existingEntry, t) ==
    IF existingEntry.found
    THEN existingEntry.entry
    ELSE NewJournalEntry(NoId, Today(t), 7, 0, <<FALSE, FALSE>>)

FormUnmounted == [mounted |-> FALSE, entry |-> NewJournalEntry(NoId, NoDate, 0, 0, <<>>)]

\* The form after a render of the App: unmounted off the journal tab; a form
\* that stays mounted keeps its state, whatever existingEntry has become
RenderJournalForm(form, tab, sel, journal, t) ==
    IF tab # "journal" \/ RenderThrows(tab, sel, journal, JArr(<<>>)) THEN FormUnmounted
    ELSE IF form.mounted THEN form
    ELSE [mounted |-> TRUE,
          entry |-> JournalEntryFormInit(GetSelectedJournalEntry(journal.items, sel), t)]

\* value || fallback, for a number
OrElse(value, fallback) == IF value = 0 THEN fallback ELSE value

\* completeEntry of handleSave
CompleteEntry(form, existingEntry, uuid, t) ==
    [id |-> IF existingEntry.found THEN existingEntry.entry.id ELSE uuid,
     date |-> IF form.entry.date = NoDate THEN Today(t) ELSE form.entry.date,
     sleepHours |-> OrElse(form.entry.sleepHours, 7),
     sleepQuality |-> OrElse(form.entry.sleepQuality, 5),
     studyHours |-> OrElse(form.entry.studyHours, 0),
     medications |-> form.entry.medications]

-----------------------------------------------------------------------------
(* The calendar *)

\* new Date(year, month, day): midnight of that day in local time
LocalMidnight(day, zone) == ParseDate(day) - zone.offset

\* date.toISOString().split('T')[0] of a cell's Date
CellDateString(day, zone) == ISODate(LocalMidnight(day, zone))

\* journalEntries.find(entry => entry.date === dateString)
GetJournalEntryForDate(journal, dateString) == GetSelectedJournalEntry(journal, dateString)

\* moodEntries.filter(entry => new Date(entry.timestamp).toISOString().split('T')[0] === dateString)
GetMoodEntriesForDate(mood, dateString) ==
    LET Keep(entry) == ISODate(entry.timestamp) = dateString
    IN  SelectSeq(mood, Keep)

\* getAverageMoodForDate returns null
Null == [isNull |-> TRUE, value |-> Zero]

\* (variant) no entry averages to 0
GetAverageMoodOrZero(mood, dateString) ==
    LET moodsForDate == GetMoodEntriesForDate(mood, dateString)
    IN  IF Len(moodsForDate) = 0 THEN [isNull |-> FALSE, value |-> Zero]
        ELSE [isNull |-> FALSE,
              value |-> Frac(ReduceField(moodsForDate, "mood"), Len(moodsForDate))]

\* getAverageMoodForDate
GetAverageMoodForDate(mood, dateString) ==
    LET moodsForDate == GetMoodEntriesForDate(mood, dateString)
    IN  IF Len(moodsForDate) = 0 THEN Null
        ELSE [isNull |-> FALSE,
              value |-> Frac(ReduceField(moodsForDate, "mood"), Len(moodsForDate))]

\* new Date(year, month + 1, 0).getDate(): the length of a month
DaysInMonth(month) ==
    LET year == 2024 + (month \div 12)
        leap == (year % 4 = 0 /\ year % 100 # 0) \/ year % 400 = 0
    IN  CASE month % 12 = 1 -> IF leap THEN 29 ELSE 28
          [] month % 12 \in {3, 5, 8, 10} -> 30
          [] OTHER -> 31

\* getFirstDayOfMonth: new Date(year, month, 1), as a local day
RECURSIVE GetFirstDayOfMonth(_)
GetFirstDayOfMonth(month) ==
    IF month = 0 THEN 1
    ELSE IF month > 0 THEN GetFirstDayOfMonth(month - 1) + DaysInMonth(month - 1)
    ELSE GetFirstDayOfMonth(month + 1) - DaysInMonth(month)

\* getDaysInMonth: the local days from the first to the last of the month
GetDaysInMonth(month) ==
    GetFirstDayOfMonth(month)..(GetFirstDayOfMonth(month) + DaysInMonth(month) - 1)

\* getFullYear() and getMonth() of an instant, in local time
MonthOf(t, zone) ==
    LET day == ISODate(t + zone.offset)
    IN  CHOOSE month \in (0 - 24)..24 : day \in GetDaysInMonth(month)

\* The cells of the month of currentDate: what each looks up, and the date
\* its click selects
CalendarView(journal, mood, zone, month) ==
    [rendered |-> TRUE,
     month |-> month,
     cells |-> [day \in GetDaysInMonth(month) |->
                  LET dateString == CellDateString(day, zone)
                  IN  [dateString |-> dateString,
                       journalEntry |-> GetJournalEntryForDate(journal, dateString),
                       moodEntries |-> GetMoodEntriesForDate(mood, dateString),
                       avgMood |-> GetAverageMoodForDate(mood, dateString)]]]

CalendarNotRendered == [rendered |-> FALSE, month |-> 0, cells |-> <<>>]

\* What the calendar shows after the render, if it is the active view: a
\* calendar that mounts starts at useState(new Date()), a mounted one keeps
\* its currentDate
RenderCalendar(cal, tab, journal, mood, zone, t) ==
    IF tab = "calendar" /\ IsArray(journal) /\ IsArray(mood)
    THEN CalendarView(journal.items, mood.items, zone,
                      IF cal.rendered THEN cal.month ELSE MonthOf(t, zone))
    ELSE CalendarNotRendered

-----------------------------------------------------------------------------
(* The mood form *)

\* crypto.randomUUID(): an id no entry has.  Ids are only ever compared, so
\* the model takes the next number above those of the entries in being.
RandomUUID(entries) ==
    LET ids == {entries[i].id : i \in 1..Len(entries)} \cup {0}
    IN  1 + (CHOOSE m \in ids : \A i \in ids : i <= m)

\* the blank form: a fresh id, the current instant, every scale at 5
BlankMoodForm(entries, t) == NewMoodEntry(RandomUUID(entries), t, 5, 5, 5, 5, <<>>)

MoodFormUnmounted == [mounted |-> FALSE, formData |-> NewMoodEntry(0, 0, 0, 0, 0, 0, <<>>)]

\* The form after a render of the App: the App passes no existingEntry, so a
\* form that mounts starts blank; a form that stays mounted keeps its state
RenderMoodForm(form, tab, entries, t) ==
    IF tab # "mood" THEN MoodFormUnmounted
    ELSE IF form.mounted THEN form
    ELSE [mounted |-> TRUE, formData |-> BlankMoodForm(entries, t)]

\* (variant) the form keeps its entry, id included, after a save
MoodFormAfterSubmitKeep(form, entries, t) == form

\* if (!existingEntry) setFormData({ id: crypto.randomUUID(), ... })
MoodFormAfterSubmit(form, entries, t) ==
    [mounted |-> TRUE, formData |-> BlankMoodForm(entries, t)]

-----------------------------------------------------------------------------
(* The AI chat *)

\* the initial message of the chat
Greeting == [type |-> "ai", content |-> "greeting", req |-> 0]

\* input.trim()
Trim(text) == IF text = " " THEN "" ELSE text

\* The /chat handler of the server: the HTTP response for a message, given
\* whether GEMINI_API_KEY is set and how the call to the text service went
\* ("text": 2xx with a text; "network": fetch threw; "status": not 2xx;
\* "missing": 2xx without a text)
ServerChat(message, apiKey, gemini) ==
    IF message = "" THEN [ok |-> FALSE, status |-> 400, hasResponse |-> FALSE]
    ELSE IF ~apiKey THEN [ok |-> FALSE, status |-> 500, hasResponse |-> FALSE]
    ELSE IF gemini = "text" THEN [ok |-> TRUE, status |-> 200, hasResponse |-> TRUE]
    ELSE [ok |-> FALSE, status |-> 500, hasResponse |-> FALSE]

\* The AI message sendMessage appends once its fetch has settled: the canned
\* message when fetch rejected or the status is not 2xx, else data.response,
\* which is undefined when the body has no such field
AiMessage(request, rejected, response) ==
    IF rejected \/ ~response.ok
    THEN [type |-> "ai", content |-> "fallback", req |-> request.req]
    ELSE [type |-> "ai",
          content |-> IF response.hasResponse THEN "reply" ELSE "undefined",
          req |-> request.req]

\* No update of the chat is waiting for a render.  An update made outside
\* an event handler (by the load effect, by the continuation of sendMessage)
\* waits for a later render: val is the list the updates waiting make of the
\* messages, same tells that it is the very array already shown (its save
\* effect then does not run again), loadingOff that setIsLoading(false)
\* waits too.
NoMessages == [set |-> FALSE, val |-> <<>>, same |-> FALSE, loadingOff |-> FALSE]

\* the chat once the updates waiting are rendered
ChatApplied(c) ==
    IF c.queued.set
    THEN [c EXCEPT !.messages = c.queued.val,
                   !.isLoading = IF c.queued.loadingOff THEN FALSE ELSE @,
                   !.queued = NoMessages]
    ELSE c

\* setMessages from an event handler: rendered at once on the messages
\* shown, and applied again after the updates still waiting (same: the
\* handler set an array, which that later render finds already shown)
SetMessages(c, messages, rebased, same) ==
    [c EXCEPT !.messages = messages,
              !.queued = IF c.queued.set
                         THEN [@ EXCEPT !.val = rebased, !.same = same]
                         ELSE @]

\* setMessages(prev => [...prev, message]) and, finally, setIsLoading(false)
\* in the continuation of sendMessage: both wait for a later render, after
\* the updates already waiting
AfterSettle(c, request, message) ==
    [c EXCEPT
        !.queued = [set |-> TRUE,
                    val |-> Append(ChatApplied(c).messages, message),
                    same |-> FALSE,
                    loadingOff |-> TRUE],
        !.requests = c.requests \ {request}]

\* the chat tab is not shown: the component and its state are gone, the
\* localStorage item stays, and the requests in flight go on for a component
\* that is no longer mounted
ChatUnmounted(c) ==
    [mounted |-> FALSE, messages |-> <<>>, input |-> "", isLoading |-> FALSE,
     requests |-> {[r EXCEPT !.live = FALSE] : r \in c.requests},
     sent |-> c.sent, stored |-> c.stored, queued |-> NoMessages]

\* the user message of sendMessage
UserMessage(text, n) == [type |-> "user", content |-> text, req |-> n]

\* sendMessage up to its await: the user message is appended, the input
\* cleared, isLoading set and the request sent
AfterSend(c) ==
    LET n == c.sent + 1
    IN  [SetMessages(c, Append(c.messages, UserMessage(Trim(c.input), n)),
                        Append(c.queued.val, UserMessage(Trim(c.input), n)),
                        FALSE) EXCEPT
            !.input = "",
            !.isLoading = TRUE,
            !.requests = c.requests \cup {[req |-> n, message |-> Trim(c.input), live |-> TRUE]},
            !.sent = n]

\* The chat once the fetch of a request has settled.  The continuation of
\* sendMessage sets the state of the component that sent the request; when
\* that component has been unmounted the updates are dropped.
AfterFetch(c, request, rejected, response) ==
    IF request.live
    THEN AfterSettle(c, request, AiMessage(request, rejected, response))
    ELSE [c EXCEPT !.requests = c.requests \ {request}]

\* useState initial values: the first render of the component shows the
\* greeting, whatever localStorage holds
ChatMounted(c) ==
    [mounted |-> TRUE, messages |-> <<Greeting>>, input |-> "", isLoading |-> FALSE,
     requests |-> c.requests, sent |-> c.sent, stored |-> c.stored,
     queued |-> NoMessages]

\* before the chat tab was ever shown
ChatNeverMounted ==
    [mounted |-> FALSE, messages |-> <<>>, input |-> "", isLoading |-> FALSE,
     requests |-> {}, sent |-> 0, stored |-> <<>>, queued |-> NoMessages]

\* The chat after a render of the App
RenderChat(c, tab) ==
    IF tab # "chatbot" THEN ChatUnmounted(c)
    ELSE IF c.mounted THEN c
    ELSE ChatMounted(c)

\* The passive effects of a commit that mounts the chat: its load effect and
\* its save effect, in declaration order
MountEffects(c, tab) ==
    IF tab = "chatbot" /\ ~c.mounted THEN <<"chatLoad", "chatSave">> ELSE <<>>

-----------------------------------------------------------------------------
(* App: startup *)

\* The clock of the App runs: noon of day Today0
AppNow == ParseDate(Today0) + 1

\* Dates and values the forms are given in the App runs
FormDates == {Today0 - 1, Today0}

FormMoods == {3}

FormJournalEntries ==
    {NewJournalEntry(i, d, 7, 0, <<FALSE, FALSE>>) : i \in JournalIds, d \in FormDates}


\* What localStorage may hold under a key when the App starts: nothing, text
\* that is not JSON, JSON that is not an array, or a collection the App wrote
StoredJournal ==
    {Absent, Garbage, JSONStringify(JNull), JSONStringify(JObject),
     JSONStringify(JArr(<<>>)),
     JSONStringify(JArr(<<NewJournalEntry(1, Today0 - 1, 7, 0, <<FALSE, FALSE>>)>>))}

StoredMood ==
    {Absent, Garbage, JSONStringify(JNull), JSONStringify(JObject),
     JSONStringify(JArr(<<>>)),
     JSONStringify(JArr(<<NewMoodEntry(1, AppNow - TicksPerDay, 3, 5, 5, 5, <<>>)>>))}

\* nothing is queued; handled counts the events handled since the load
\* effect queued its updates, up to the re-render that applies them
NoPending == [journal |-> NoUpdate, mood |-> NoUpdate, handled |-> 0]

Init ==
    /\ journalEntries = JArr(<<>>)
    /\ moodEntries = JArr(<<>>)
    /\ activeTab = "dashboard"
    /\ selectedDate = NoDate
    /\ lsJournal \in StoredJournal
    /\ lsMood \in StoredMood
    /\ effects = <<"load", "saveJournal", "saveMood">>
    /\ pending = NoPending
    /\ crashed = FALSE
    /\ boot = [journal |-> lsJournal, mood |-> lsMood, live |-> TRUE]
    /\ now = AppNow
    /\ tz = UTC
    /\ dash = Dashboard(<<>>, <<>>, now, tz)
    /\ analytics = AnalyticsNotRendered
    /\ journalForm = FormUnmounted
    /\ calendar = CalendarNotRendered
    /\ moodForm = MoodFormUnmounted
    /\ chat = ChatNeverMounted

\* (variant) a parse failure stores what came out instead of being dropped
LoadedUncaught(saved) ==
    IF Truthy(saved) THEN Update(JSONParse(saved)) ELSE NoUpdate

\* What the load effect queues for one key: nothing when the item is absent
\* or JSON.parse throws (the catch only logs), else whatever it parsed to
Loaded(saved) ==
    IF Truthy(saved) /\ ~JSONParseThrows(saved)
    THEN Update(JSONParse(saved))
    ELSE NoUpdate

\* useEffect(() => { ...getItem...; setJournalEntries(JSON.parse(...)) ... }, [])
LoadEffect ==
    /\ effects # <<>> /\ Head(effects) = "load"
    /\ pending' = [journal |-> Loaded(lsJournal), mood |-> Loaded(lsMood), handled |-> 0]
    /\ effects' = Tail(effects)
    /\ UNCHANGED <<journalEntries, moodEntries, activeTab, selectedDate, lsJournal,
                   lsMood, crashed, boot, now, dash, analytics, journalForm,
                   tz, calendar, moodForm, chat>>

\* (variant) only the newest entry is written
SaveJournalEffectNewest ==
    /\ effects # <<>> /\ Head(effects) = "saveJournal"
    /\ lsJournal' = JSONStringify(
          IF IsArray(journalEntries) /\ journalEntries.items # <<>>
          THEN JArr(<<journalEntries.items[Len(journalEntries.items)]>>)
          ELSE journalEntries)
    /\ effects' = Tail(effects)
    /\ UNCHANGED <<journalEntries, moodEntries, activeTab, selectedDate, lsMood,
                   pending, crashed, boot, now, dash, analytics, journalForm,
                   tz, calendar, moodForm, chat>>

\* useEffect(() => localStorage.setItem('journalEntries', ...), [journalEntries])
SaveJournalEffect ==
    /\ effects # <<>> /\ Head(effects) = "saveJournal"
    /\ lsJournal' = JSONStringify(journalEntries)
    /\ effects' = Tail(effects)
    /\ UNCHANGED <<journalEntries, moodEntries, activeTab, selectedDate, lsMood,
                   pending, crashed, boot, now, dash, analytics, journalForm,
                   tz, calendar, moodForm, chat>>

\* useEffect(() => localStorage.setItem('moodEntries', ...), [moodEntries])
SaveMoodEffect ==
    /\ effects # <<>> /\ Head(effects) = "saveMood"
    /\ lsMood' = JSONStringify(moodEntries)
    /\ effects' = Tail(effects)
    /\ UNCHANGED <<journalEntries, moodEntries, activeTab, selectedDate, lsJournal,
                   pending, crashed, boot, now, dash, analytics, journalForm,
                   tz, calendar, moodForm, chat>>

\* useEffect(() => { ...getItem('aiChatMessages')...; setMessages(parsed) ... }, [])
\* of the chat: saved messages, when there are any, are queued to replace the
\* greeting
ChatLoadEffect ==
    /\ effects # <<>> /\ Head(effects) = "chatLoad"
    /\ chat' = IF Len(chat.stored) > 0
               THEN [chat EXCEPT !.queued = [NoMessages EXCEPT !.set = TRUE,
                                                               !.val = chat.stored]]
               ELSE chat
    /\ effects' = Tail(effects)
    /\ UNCHANGED <<journalEntries, moodEntries, activeTab, selectedDate, lsJournal,
                   lsMood, pending, crashed, boot, now, dash, analytics, journalForm,
                   tz, calendar, moodForm>>

\* useEffect(() => localStorage.setItem('aiChatMessages', ...), [messages])
ChatSaveEffect ==
    /\ effects # <<>> /\ Head(effects) = "chatSave"
    /\ chat' = [chat EXCEPT !.stored = chat.messages]
    /\ effects' = Tail(effects)
    /\ UNCHANGED <<journalEntries, moodEntries, activeTab, selectedDate, lsJournal,
                   lsMood, pending, crashed, boot, now, dash, analytics, journalForm,
                   tz, calendar, moodForm>>

-----------------------------------------------------------------------------
(* App: renders *)

\* One render of the App and its commit: with this state, the mood form and
\* the chat as they were before it, and the effects whose dependencies
\* changed.  A render that throws (throws: an updater function threw)
\* unmounts the tree and its effects never run; the effects of a child run
\* before those of the App.
Commit(throws, tab, sel, journal, mood, form, c, changed) ==
    /\ activeTab' = tab
    /\ selectedDate' = sel
    /\ moodEntries' = mood
    /\ IF throws \/ RenderThrows(tab, sel, journal, mood)
       THEN /\ crashed' = TRUE
            /\ journalEntries' = journal
            /\ effects' = <<>>
            /\ dash' = NotRendered
            /\ analytics' = AnalyticsNotRendered
            /\ journalForm' = FormUnmounted
            /\ calendar' = CalendarNotRendered
            /\ moodForm' = MoodFormUnmounted
            /\ chat' = ChatUnmounted(c)
       ELSE /\ crashed' = FALSE
            /\ journalEntries' = RenderJournal(tab, journal)
            /\ effects' = MountEffects(c, tab) \o changed
            /\ dash' = RenderDash(tab, journal, mood, now, tz)
            /\ analytics' = RenderAnalytics(tab, journal, mood, tz)
            /\ journalForm' = RenderJournalForm(journalForm, tab, sel, journal, now)
            /\ calendar' = RenderCalendar(calendar, tab, journal, mood, tz, now)
            /\ moodForm' =
                   RenderMoodForm(form, tab, mood.items \o pending.mood.val.items, now)
            /\ chat' = RenderChat(c, tab)
    /\ UNCHANGED <<lsJournal, lsMood, now, tz>>

\* The render that applies every update still queued (the chat as it is
\* once its own updates are applied, and whether its messages changed).
\* Each save effect whose collection is a new object runs again.
DefaultRender(c, messagesChanged) ==
    LET journal == IF pending.journal.set THEN pending.journal.val ELSE journalEntries
        mood == IF pending.mood.set THEN pending.mood.val ELSE moodEntries
    IN  /\ Commit(pending.journal.throws \/ pending.mood.throws,
                  activeTab, selectedDate, journal, mood, moodForm, c,
                  (IF messagesChanged THEN <<"chatSave">> ELSE <<>>)
                  \o (IF pending.journal.set THEN <<"saveJournal">> ELSE <<>>)
                  \o (IF pending.mood.set THEN <<"saveMood">> ELSE <<>>))
        /\ pending' = NoPending
        /\ UNCHANGED boot

\* an event handler may act: no effect is pending and the tree is mounted
Idle == effects = <<>> /\ ~crashed

\* the updates the load effect queued are still to be rendered
WindowOpen == pending.journal.set \/ pending.mood.set

\* one more event is handled before the re-render
Handled(p) == IF p.journal.set \/ p.mood.set THEN [p EXCEPT !.handled = @ + 1] ELSE p

\* the bound on the events handled before the re-render
MayHandle == WindowOpen => pending.handled < MaxWindowEvents

\* The re-render that applies the updates waiting: those of the load
\* effects and of the continuation of sendMessage.  The save effect of the
\* chat runs again when the messages are a new array.
Rerender ==
    /\ Idle
    /\ pending.journal.set \/ pending.mood.set \/ chat.queued.set
    /\ DefaultRender(ChatApplied(chat), chat.queued.set /\ ~chat.queued.same)

\* The collection a render of the App shows for a store: while an updater
\* function waits behind a queued update it is a new array, made by applying
\* the functions handled so far to the state of before the update
Replayed(update, current) ==
    IF update.set /\ update.replays THEN JArr(update.shown) ELSE current

\* The save effects a render of the App in that window schedules again, their
\* dependency being a new array: in the order of their declaration
ReplayEffects(journal, mood) ==
    (IF pending.journal.set /\ pending.journal.replays /\ journal
     THEN <<"saveJournal">> ELSE <<>>)
    \o (IF pending.mood.set /\ pending.mood.replays /\ mood
        THEN <<"saveMood">> ELSE <<>>)

\* A functional update setX(prev => upsert(prev, entry)) made while an update
\* is queued (current: the collection shown) is applied to the queued value
\* by the re-render, where prev.findIndex throws unless prev is an array,
\* and to the state of before the queued update by every render until then
Rebase(update, current, entry) ==
    IF ~update.set THEN update
    ELSE [update EXCEPT
             !.val = IF ~update.throws /\ IsArray(@)
                     THEN JArr(Upsert(@.items, entry))
                     ELSE @,
             !.throws = @ \/ ~IsArray(update.val),
             !.replays = TRUE,
             !.shown = Upsert(Replayed(update, current).items, entry)]

-----------------------------------------------------------------------------
(* App: event handlers, each with the render it causes *)

\* SidebarMenuButton onClick
SidebarClick(item) ==
    /\ Idle
    /\ Commit(FALSE, item, IF item = "journal" THEN Today(now) ELSE NoDate,
              Replayed(pending.journal, journalEntries),
              Replayed(pending.mood, moodEntries), moodForm, chat,
              ReplayEffects(TRUE, TRUE))
    /\ boot' = BootCleared
    /\ pending' = Handled(pending)

\* CalendarView onDateSelect
handleDateSelect(date) ==
    /\ Idle
    /\ activeTab = "calendar"
    /\ Commit(FALSE, "journal", date, Replayed(pending.journal, journalEntries),
              Replayed(pending.mood, moodEntries), moodForm, chat,
              ReplayEffects(TRUE, TRUE))
    /\ boot' = BootCleared
    /\ pending' = Handled(pending)

\* CalendarView: setCurrentDate(...) and the render of the cells of that month
SetCurrentDate(month) ==
    /\ Idle
    /\ calendar.rendered
    /\ calendar' = CalendarView(journalEntries.items, moodEntries.items, tz, month)
    /\ pending' = Handled(pending)
    /\ UNCHANGED <<journalEntries, moodEntries, activeTab, selectedDate, lsJournal,
                   lsMood, effects, crashed, boot, now, dash, analytics,
                   journalForm, tz, moodForm, chat>>

\* setCurrentDate(new Date(currentDate.getFullYear(), currentDate.getMonth() - 1, 1))
goToPreviousMonth ==
    /\ calendar.month > MonthOf(now, tz) - MaxCalMonths
    /\ SetCurrentDate(calendar.month - 1)

\* setCurrentDate(new Date(currentDate.getFullYear(), currentDate.getMonth() + 1, 1))
goToNextMonth ==
    /\ calendar.month < MonthOf(now, tz) + MaxCalMonths
    /\ SetCurrentDate(calendar.month + 1)

\* setCurrentDate(new Date())
goToToday == SetCurrentDate(MonthOf(now, tz))

\* JournalEntryForm onSave
handleSaveJournalEntry(entry) ==
    /\ Idle
    /\ activeTab = "journal"
    /\ Commit(~IsArray(journalEntries), "dashboard", selectedDate,
              IF IsArray(journalEntries)
              THEN JArr(Upsert(Replayed(pending.journal, journalEntries).items, entry))
              ELSE journalEntries,
              Replayed(pending.mood, moodEntries), moodForm, chat,
              <<"saveJournal">> \o ReplayEffects(FALSE, TRUE))
    /\ pending' = Handled([pending EXCEPT
                              !.journal = Rebase(@, journalEntries, entry)])
    /\ boot' = BootCleared

\* MoodTracker onSave, with the reset of the form that follows it in
\* handleSubmit
handleSaveMoodEntry(entry) ==
    /\ Idle
    /\ activeTab = "mood"
    /\ Commit(~IsArray(moodEntries), "mood", selectedDate,
              Replayed(pending.journal, journalEntries),
              IF IsArray(moodEntries)
              THEN JArr(Upsert(Replayed(pending.mood, moodEntries).items, entry))
              ELSE moodEntries,
              MoodFormAfterSubmit(moodForm,
                  Upsert(moodEntries.items, entry) \o pending.mood.val.items, now),
              chat, ReplayEffects(TRUE, FALSE) \o <<"saveMood">>)
    /\ pending' = Handled([pending EXCEPT !.mood = Rebase(@, moodEntries, entry)])
    /\ boot' = BootCleared

\* MoodTracker: setFormData(...) and the render of the form
SetFormData(formData) ==
    /\ Idle
    /\ moodForm.mounted
    /\ moodForm' = [moodForm EXCEPT !.formData = formData]
    /\ pending' = Handled(pending)
    /\ UNCHANGED <<journalEntries, moodEntries, activeTab, selectedDate, lsJournal,
                   lsMood, effects, crashed, boot, now, dash, analytics,
                   journalForm, tz, calendar, chat>>

\* <Slider onValueChange={(value) => setFormData(prev => ({ ...prev, [field]: value[0] }))} />
\* for the fields mood, anxiety, energy and stress
MoodFormSetSlider(field, value) ==
    SetFormData([moodForm.formData EXCEPT ![field] = value])

\* handleSymptomToggle: the symptom is removed when the list includes it and
\* pushed at its end when not
handleSymptomToggle(symptom) ==
    LET list == moodForm.formData.psychoticSymptoms
        Other(sym) == sym # symptom
    IN  SetFormData([moodForm.formData EXCEPT !.psychoticSymptoms =
            IF \E i \in 1..Len(list) : list[i] = symptom
            THEN SelectSeq(list, Other)
            ELSE Append(list, symptom)])

\* handleDateTimeChange: setFullYear(year, month - 1, day) or setHours(hours,
\* minutes) on new Date(formData.timestamp), both in local time: the one is
\* replaced, the other kept (value: a day, or the tick of the day)
handleDateTimeChange(field, value) ==
    LET local == moodForm.formData.timestamp + tz.offset
        currentDate == IF field = "date"
                       THEN ParseDate(value) + (local % TicksPerDay)
                       ELSE ParseDate(ISODate(local)) + value
    IN  SetFormData([moodForm.formData EXCEPT !.timestamp = currentDate - tz.offset])

\* handleSubmit: onSave(formData), then the form is reset for a new entry
MoodFormSubmit ==
    /\ moodForm.mounted
    /\ handleSaveMoodEntry(moodForm.formData)

\* The App with its stores.  An entry handed to handleSaveJournalEntry has a
\* stored id or the next new one (ids are only ever compared); the calendar
\* and the chat tab are left to the specifications of the forms, of the
\* calendar and of the chat.
Next ==
    \/ LoadEffect
    \/ SaveJournalEffect
    \/ SaveMoodEffect
    \/ Rerender
    \/ MayHandle /\ \E item \in Tabs \ {"chatbot", "calendar"} : SidebarClick(item)
    \/ MayHandle /\ \E entry \in FormJournalEntries :
          /\ entry.id <= RandomUUID(journalEntries.items \o pending.journal.val.items)
          /\ handleSaveJournalEntry(entry)
    \/ MayHandle /\ \E value \in FormMoods : MoodFormSetSlider("mood", value)
    \/ MayHandle /\ moodForm.mounted /\ Len(moodEntries.items) < MaxMoodId /\ MoodFormSubmit

Spec == Init /\ [][Next]_vars

-----------------------------------------------------------------------------
(* The App with its journal form: a journal entry is saved by the form,    *)
(* from the form's state, instead of being handed to the App directly.     *)

\* <Input type="date" onChange={(e) => setEntry({ ...entry, date: e.target.value })} />
JournalFormSetDate(date) ==
    /\ Idle
    /\ journalForm.mounted
    /\ journalForm' = [journalForm EXCEPT !.entry.date = date]
    /\ pending' = Handled(pending)
    /\ UNCHANGED <<journalEntries, moodEntries, activeTab, selectedDate, lsJournal,
                   lsMood, effects, crashed, boot, now, dash, analytics,
                   tz, calendar, moodForm, chat>>

\* handleSave: onSave(completeEntry).  crypto.randomUUID() is called only
\* when there is no existingEntry, and gives an id no entry has.
JournalFormSave ==
    /\ journalForm.mounted
    /\ LET existingEntry == GetSelectedJournalEntry(journalEntries.items, selectedDate)
       IN  IF existingEntry.found
           THEN handleSaveJournalEntry(
                    CompleteEntry(journalForm, existingEntry, NoId, now))
           ELSE \E uuid \in JournalIds :
                    /\ \A i \in 1..Len(journalEntries.items) :
                          journalEntries.items[i].id # uuid
                    /\ \A i \in 1..Len(pending.journal.val.items) :
                          pending.journal.val.items[i].id # uuid
                    /\ handleSaveJournalEntry(
                           CompleteEntry(journalForm, existingEntry, uuid, now))

NextUI ==
    \/ LoadEffect
    \/ SaveJournalEffect
    \/ SaveMoodEffect
    \/ ChatLoadEffect
    \/ ChatSaveEffect
    \/ Rerender
    \/ MayHandle /\ \E item \in Tabs : SidebarClick(item)
    \/ MayHandle /\ \E date \in FormDates : handleDateSelect(date)
    \/ MayHandle /\ \E date \in FormDates : JournalFormSetDate(date)
    \/ MayHandle /\ JournalFormSave
    \/ MayHandle /\ \E value \in FormMoods : MoodFormSetSlider("mood", value)
    \/ MayHandle /\ moodForm.mounted /\ Len(moodEntries.items) < MaxMoodId /\ MoodFormSubmit

SpecUI == Init /\ [][NextUI]_vars

-----------------------------------------------------------------------------
(* The Dashboard taken alone: collections and a clock drawn from bounded   *)
(* sets, and one render of the Dashboard over them.                        *)

\* midnight and noon of day Today0
DashNows == {ParseDate(Today0) + tod : tod \in TimesOfDay}

DashJournalDates == {Today0 - WindowDays - 1, Today0 - WindowDays, Today0}
DashSleepHours == {5, 8}
DashMoodTimes ==
    {ParseDate(Today0 - WindowDays), ParseDate(Today0 - WindowDays) + 1, ParseDate(Today0)}
DashMoods == {2, 9}

\* sequences of at most n entries with ids 1, 2, ... in store order
DashJournals ==
    UNION {[1..n -> DashJournalDates \X DashSleepHours] : n \in 0..MaxDashJournal}

DashMoodsSeqs ==
    UNION {[1..n -> DashMoodTimes \X DashMoods] : n \in 0..MaxDashMood}

DashJournalOf(c) ==
    [i \in 1..Len(c) |-> NewJournalEntry(i, c[i][1], c[i][2], c[i][2] - 5, <<TRUE, FALSE>>)]

DashMoodOf(c) ==
    [i \in 1..Len(c) |->
        NewMoodEntry(i, c[i][1], c[i][2], 11 - c[i][2], c[i][2], 5, <<>>)]

InitDashboard ==
    /\ \E c \in DashJournals : journalEntries = JArr(DashJournalOf(c))
    /\ \E c \in DashMoodsSeqs : moodEntries = JArr(DashMoodOf(c))
    /\ now \in DashNows
    /\ activeTab = "dashboard"
    /\ selectedDate = NoDate
    /\ lsJournal = JSONStringify(journalEntries)
    /\ lsMood = JSONStringify(moodEntries)
    /\ effects = <<>>
    /\ pending = NoPending
    /\ crashed = FALSE
    /\ boot = BootCleared
    /\ dash = NotRendered
    /\ analytics = AnalyticsNotRendered
    /\ journalForm = FormUnmounted
    /\ \E shift \in {0 - 1, 0, 1} : tz = [offset |-> 0, weekShift |-> shift]
    /\ calendar = CalendarNotRendered
    /\ moodForm = MoodFormUnmounted
    /\ chat = ChatNeverMounted

\* <Dashboard journalEntries={journalEntries} moodEntries={moodEntries} />
DashboardRender ==
    /\ ~dash.rendered
    /\ dash' = Dashboard(journalEntries.items, moodEntries.items, now, tz)
    /\ UNCHANGED <<journalEntries, moodEntries, activeTab, selectedDate, lsJournal,
                   lsMood, effects, pending, crashed, boot, now, analytics, journalForm,
                   tz, calendar, moodForm, chat>>

NextDashboard == DashboardRender

SpecDashboard == InitDashboard /\ [][NextDashboard]_vars

-----------------------------------------------------------------------------
(* The alerts of the Dashboard: collections built from a few kinds of       *)
(* entries, chosen so that every rule is met on both sides of its          *)
(* threshold, and one render of the Dashboard over them.                   *)

\* kinds of mood entry: all zero, low and symptomatic, anxiety 7, anxiety 8, good
AlertMoodKinds ==
    {[mood |-> 0, anxiety |-> 0, psychoticSymptoms |-> <<>>],
     [mood |-> 2, anxiety |-> 9, psychoticSymptoms |-> <<"Halusinasi visual">>],
     [mood |-> 5, anxiety |-> 7, psychoticSymptoms |-> <<>>],
     [mood |-> 5, anxiety |-> 8, psychoticSymptoms |-> <<>>],
     [mood |-> 9, anxiety |-> 2, psychoticSymptoms |-> <<>>]}

\* n entries of one kind with ids from first on, the i-th one (i - 1) * spread
\* days before ts
MoodRun(kind, n, ts, spread, first) ==
    [i \in 1..n |->
        NewMoodEntry(first + i - 1, ts - (i - 1) * spread * TicksPerDay,
                     kind.mood, kind.anxiety, 5, 5, kind.psychoticSymptoms)]

\* a run of one kind, in the window or before it, followed by at most one
\* entry of another kind in the window
AlertMoods ==
    {MoodRun(k1, a, ts, spread, 1) \o MoodRun(k2, b, ParseDate(Today0), 0, a + 1) :
        k1 \in AlertMoodKinds, a \in 0..MaxAlertRun,
        ts \in {ParseDate(Today0), ParseDate(Today0 - WindowDays - 1)},
        spread \in {0, 1}, k2 \in AlertMoodKinds, b \in {0, 1}}

\* a long run of anxiety 7 followed by at most one entry of anxiety 8
AlertLongMoods ==
    {MoodRun([mood |-> 5, anxiety |-> 7, psychoticSymptoms |-> <<>>], a, ParseDate(Today0), 0, 1)
     \o MoodRun([mood |-> 5, anxiety |-> 8, psychoticSymptoms |-> <<>>], b, ParseDate(Today0), 0, a + 1) :
        a \in 0..MaxLongRun, b \in {0, 1}}

AlertSleepHours == {5, 6, 7}
AlertMedications ==
    {<<>>, <<TRUE, FALSE>>, <<TRUE, TRUE>>, <<TRUE, TRUE, TRUE, TRUE, FALSE>>}

\* kinds of journal entry: today's, and one from before the window
AlertJournalKinds ==
    {[date |-> Today0, sleepHours |-> sl, medications |-> meds] :
        sl \in AlertSleepHours, meds \in AlertMedications}
    \cup {[date |-> Today0 - WindowDays - 1, sleepHours |-> 5, medications |-> <<TRUE, FALSE>>]}

AlertJournals ==
    LET Shape == UNION {[1..n -> AlertJournalKinds] : n \in 0..MaxAlertJournal}
    IN  {[i \in 1..Len(c) |->
             NewJournalEntry(i, c[i].date, c[i].sleepHours, 0, c[i].medications)] : c \in Shape}

AlertInputs ==
    {[journal |-> j, mood |-> m] : j \in AlertJournals, m \in AlertMoods}
    \cup {[journal |-> <<>>, mood |-> m] : m \in AlertLongMoods}

InitAlerts ==
    /\ \E c \in AlertInputs :
          /\ journalEntries = JArr(c.journal)
          /\ moodEntries = JArr(c.mood)
    /\ now \in DashNows
    /\ activeTab = "dashboard"
    /\ selectedDate = NoDate
    /\ lsJournal = JSONStringify(journalEntries)
    /\ lsMood = JSONStringify(moodEntries)
    /\ effects = <<>>
    /\ pending = NoPending
    /\ crashed = FALSE
    /\ boot = BootCleared
    /\ dash = NotRendered
    /\ analytics = AnalyticsNotRendered
    /\ journalForm = FormUnmounted
    /\ tz = UTC
    /\ calendar = CalendarNotRendered
    /\ moodForm = MoodFormUnmounted
    /\ chat = ChatNeverMounted

NextAlerts == DashboardRender

SpecAlerts == InitAlerts /\ [][NextAlerts]_vars

-----------------------------------------------------------------------------
(* The Analytics view taken alone: collections drawn from bounded sets and *)
(* one render of the view over them.                                       *)

AnaJournalDates == {1, 2}
AnaMedications == {<<>>, <<TRUE>>, <<TRUE, FALSE>>, <<FALSE, FALSE, FALSE>>}
AnaMoodTimes == {ParseDate(d) + tod : d \in {1, 2}, tod \in TimesOfDay}
AnaMoods == {2, 9}

\* every short journal, with ids 1, 2, ... in store order
AnaJournals ==
    LET Shape == UNION {[1..n -> AnaJournalDates \X AnaMedications] : n \in 0..MaxAnaJournal}
    IN  {[i \in 1..Len(c) |-> NewJournalEntry(i, c[i][1], 7, 0, c[i][2])] : c \in Shape}

\* a journal of n entries, one a day, whose medication lists go round AnaMedications
AnaLongJournal(n) ==
    [i \in 1..n |->
        NewJournalEntry(i, n + 1 - i, 7, 0,
                        CASE i % 4 = 0 -> <<>>
                          [] i % 4 = 1 -> <<TRUE>>
                          [] i % 4 = 2 -> <<TRUE, FALSE>>
                          [] OTHER -> <<FALSE, FALSE, FALSE>>)]

\* every short mood collection
AnaMoodSeqs ==
    LET Shape == UNION {[1..n -> AnaMoodTimes \X AnaMoods] : n \in 0..MaxAnaMood}
    IN  {[i \in 1..Len(c) |->
             NewMoodEntry(i, c[i][1], c[i][2], 11 - c[i][2], c[i][2], 5, <<>>)] : c \in Shape}

\* a mood collection over n days, one entry a day stored in the given order,
\* followed by `more` further entries on day 1
AnaLongMood(n, order, more) ==
    LET DayOf(i) ==
            CASE i > n -> 1
              [] order = "ascending" -> i
              [] order = "descending" -> n + 1 - i
              [] OTHER -> ((i + (n \div 2)) % n) + 1
    IN  [i \in 1..(n + more) |->
            NewMoodEntry(i, ParseDate(DayOf(i)) + (i % TicksPerDay),
                         1 + (i % 10), 10 - (i % 10), 5, 5, <<>>)]

AnaLongMoods ==
    {AnaLongMood(n, order, more) :
        n \in 1..MaxTrendDates, order \in {"ascending", "descending", "rotated"},
        more \in {0, 2}}

AnaInputs ==
    {[journal |-> j, mood |-> <<>>] : j \in AnaJournals}
    \cup {[journal |-> AnaLongJournal(n), mood |-> <<>>] : n \in 0..(AdherenceEntries + 2)}
    \cup {[journal |-> <<>>, mood |-> m] : m \in AnaMoodSeqs \cup AnaLongMoods}

InitAnalytics ==
    /\ \E c \in AnaInputs :
          /\ journalEntries = JArr(c.journal)
          /\ moodEntries = JArr(c.mood)
    /\ now = AppNow
    /\ activeTab = "analytics"
    /\ selectedDate = NoDate
    /\ lsJournal = JSONStringify(journalEntries)
    /\ lsMood = JSONStringify(moodEntries)
    /\ effects = <<>>
    /\ pending = NoPending
    /\ crashed = FALSE
    /\ boot = BootCleared
    /\ dash = NotRendered
    /\ analytics = AnalyticsNotRendered
    /\ journalForm = FormUnmounted
    /\ \E offset \in TZOffsets : tz = [offset |-> offset, weekShift |-> 0]
    /\ calendar = CalendarNotRendered
    /\ moodForm = MoodFormUnmounted
    /\ chat = ChatNeverMounted

\* <Analytics journalEntries={journalEntries} moodEntries={moodEntries} />
AnalyticsRender ==
    /\ ~analytics.rendered
    /\ analytics' = Analytics(journalEntries.items, moodEntries.items, tz)
    /\ journalEntries' = JArr(AnalyticsJournalAfterRender(journalEntries.items))
    /\ UNCHANGED <<moodEntries, activeTab, selectedDate, lsJournal, lsMood, effects,
                   pending, crashed, boot, now, dash, journalForm,
                   tz, calendar, moodForm, chat>>

NextAnalytics == AnalyticsRender

SpecAnalytics == InitAnalytics /\ [][NextAnalytics]_vars

-----------------------------------------------------------------------------
(* The App with its calendar and its analytics, after a startup that found *)
(* decodable data: collections and a timezone drawn from bounded sets, the *)
(* two views opened from the sidebar, and the months of the calendar.      *)

CalJournals ==
    LET dates == 0..1
        Shape == UNION {[1..n -> dates] : n \in 0..MaxCalJournal}
    IN  {[i \in 1..Len(c) |-> NewJournalEntry(i, c[i], 7, 0, <<TRUE, FALSE>>)] : c \in Shape}

\* mood entries at any of three instants of two days, with the moods 4, 6,
\* 8 and 5 in this order
CalMoodSeqs ==
    LET timestamps == {ParseDate(0) + 1, ParseDate(1), ParseDate(1) + 1}
        moods == <<4, 6, 8, 5>>
        Shape == UNION {[1..n -> timestamps] : n \in 0..MaxCalMood}
    IN  {[i \in 1..Len(c) |->
             LET mood == moods[((i - 1) % 4) + 1]
             IN  NewMoodEntry(i, c[i], mood, 11 - mood, mood, 5, <<>>)] : c \in Shape}

CalInputs == {[journal |-> j, mood |-> m] : j \in CalJournals, m \in CalMoodSeqs}

InitCalendar ==
    /\ \E c \in CalInputs :
          /\ journalEntries = JArr(c.journal)
          /\ moodEntries = JArr(c.mood)
    /\ \E offset \in TZOffsets : tz = [offset |-> offset, weekShift |-> 0]
    /\ now = AppNow
    /\ activeTab = "dashboard"
    /\ selectedDate = NoDate
    /\ lsJournal = JSONStringify(journalEntries)
    /\ lsMood = JSONStringify(moodEntries)
    /\ effects = <<>>
    /\ pending = NoPending
    /\ crashed = FALSE
    /\ boot = BootCleared
    /\ dash = Dashboard(journalEntries.items, moodEntries.items, now, tz)
    /\ analytics = AnalyticsNotRendered
    /\ journalForm = FormUnmounted
    /\ calendar = CalendarNotRendered
    /\ moodForm = MoodFormUnmounted
    /\ chat = ChatNeverMounted

NextCalendar ==
    \/ \E item \in {"calendar", "analytics"} : SidebarClick(item)
    \/ goToPreviousMonth
    \/ goToNextMonth
    \/ goToToday

SpecCalendar == InitCalendar /\ [][NextCalendar]_vars

-----------------------------------------------------------------------------
(* The App with its mood form, after a startup that found decodable data *)

\* the mood collections the App may have loaded
MoodStored == {<<>>, <<NewMoodEntry(1, AppNow - TicksPerDay, 3, 5, 5, 5, <<>>)>>}

InitMood ==
    /\ journalEntries = JArr(<<>>)
    /\ moodEntries \in {JArr(m) : m \in MoodStored}
    /\ activeTab = "dashboard"
    /\ selectedDate = NoDate
    /\ lsJournal = JSONStringify(journalEntries)
    /\ lsMood = JSONStringify(moodEntries)
    /\ effects = <<>>
    /\ pending = NoPending
    /\ crashed = FALSE
    /\ boot = BootCleared
    /\ now = AppNow
    /\ tz = UTC
    /\ dash = Dashboard(journalEntries.items, moodEntries.items, now, tz)
    /\ analytics = AnalyticsNotRendered
    /\ journalForm = FormUnmounted
    /\ calendar = CalendarNotRendered
    /\ moodForm = MoodFormUnmounted
    /\ chat = ChatNeverMounted

NextMood ==
    \/ SaveMoodEffect
    \/ \E item \in {"dashboard", "mood"} : SidebarClick(item)
    \/ MoodFormSetSlider("anxiety", 8)
    \/ handleSymptomToggle("Halusinasi visual")
    \/ handleDateTimeChange("date", Today0 - 1)
    \/ handleDateTimeChange("time", 0)
    \/ moodForm.mounted /\ Len(moodEntries.items) < MaxMoodSubmits /\ MoodFormSubmit

SpecMood == InitMood /\ [][NextMood]_vars

-----------------------------------------------------------------------------
(* The App with the sliders of its journal form, after a startup that found *)
(* decodable data                                                           *)

\* the journal collections the App may have loaded
JournalStored == {<<>>, <<NewJournalEntry(1, Today0 - 1, 7, 0, <<FALSE, FALSE>>)>>}

\* values of the hour sliders (min 0, max 12) and of the quality slider
\* (min 1, max 10)
FormHours == {0, 12}
FormQualities == {1, 10}

InitForm ==
    /\ journalEntries \in {JArr(j) : j \in JournalStored}
    /\ moodEntries = JArr(<<>>)
    /\ activeTab = "dashboard"
    /\ selectedDate = NoDate
    /\ lsJournal = JSONStringify(journalEntries)
    /\ lsMood = JSONStringify(moodEntries)
    /\ effects = <<>>
    /\ pending = NoPending
    /\ crashed = FALSE
    /\ boot = BootCleared
    /\ now = AppNow
    /\ tz = UTC
    /\ dash = Dashboard(journalEntries.items, moodEntries.items, now, tz)
    /\ analytics = AnalyticsNotRendered
    /\ journalForm = FormUnmounted
    /\ calendar = CalendarNotRendered
    /\ moodForm = MoodFormUnmounted
    /\ chat = ChatNeverMounted

\* <Slider onValueChange={(value) => setEntry({ ...entry, sleepHours: value[0] })} />
\* and the same for sleepQuality and studyHours
JournalFormSetSlider(field, value) ==
    /\ Idle
    /\ journalForm.mounted
    /\ journalForm' = [journalForm EXCEPT !.entry[field] = value]
    /\ pending' = Handled(pending)
    /\ UNCHANGED <<journalEntries, moodEntries, activeTab, selectedDate, lsJournal,
                   lsMood, effects, crashed, boot, now, dash, analytics,
                   tz, calendar, moodForm, chat>>

\* setEntry({ ...entry, medications }) and the render of the form.  A
\* medication is modelled by its taken flag: its name and its time reach no
\* computation of the App.
SetMedications(medications) ==
    /\ Idle
    /\ journalForm.mounted
    /\ journalForm' = [journalForm EXCEPT !.entry.medications = medications]
    /\ pending' = Handled(pending)
    /\ UNCHANGED <<journalEntries, moodEntries, activeTab, selectedDate, lsJournal,
                   lsMood, effects, crashed, boot, now, dash, analytics,
                   tz, calendar, moodForm, chat>>

\* handleMedicationChange: medications[index] = { ...medications[index],
\* [field]: value } on a copy of the list (index counts from 0, and is that
\* of a row the form shows)
handleMedicationChange(index, field, value) ==
    /\ index < Len(journalForm.entry.medications)
    /\ SetMedications(IF field = "taken"
                      THEN [journalForm.entry.medications EXCEPT ![index + 1] = value]
                      ELSE journalForm.entry.medications)

\* addMedication: medications.push({ name: '', taken: false, time: '08:00' })
addMedication ==
    SetMedications(Append(journalForm.entry.medications, FALSE))

\* removeMedication: medications.splice(index, 1)
removeMedication(index) ==
    LET medications == journalForm.entry.medications
    IN  /\ index < Len(medications)
        /\ SetMedications(SubSeq(medications, 1, index)
                             \o SubSeq(medications, index + 2, Len(medications)))

\* the row of the medication list, counted from 0, that is ticked and
\* removed in the runs: the first one, when the list has one
MedicationRows == {0} \cap 0..(Len(journalForm.entry.medications) - 1)

NextForm ==
    \/ SaveJournalEffect
    \/ ChatLoadEffect
    \/ ChatSaveEffect
    \/ Rerender
    \/ \E item \in Tabs : SidebarClick(item)
    \/ \E value \in FormHours : JournalFormSetSlider("sleepHours", value)
    \/ \E value \in FormQualities : JournalFormSetSlider("sleepQuality", value)
    \/ \E value \in FormHours : JournalFormSetSlider("studyHours", value)
    \/ \E index \in MedicationRows :
          handleMedicationChange(index, "taken", ~journalForm.entry.medications[index + 1])
    \/ Len(journalForm.entry.medications) < MaxMedications /\ addMedication
    \/ \E index \in MedicationRows : removeMedication(index)
    \/ JournalFormSave

SpecForm == InitForm /\ [][NextForm]_vars

-----------------------------------------------------------------------------
(* The App with its chat, after a startup that found no data *)

\* what the user may type: nothing, blanks, a message
ChatInputs == {"", " ", "halo"}

\* how the server's call to the text service may go
GeminiOutcomes == {"text", "network", "status", "missing"}

InitChat ==
    /\ journalEntries = JArr(<<>>)
    /\ moodEntries = JArr(<<>>)
    /\ activeTab = "dashboard"
    /\ selectedDate = NoDate
    /\ lsJournal = JSONStringify(journalEntries)
    /\ lsMood = JSONStringify(moodEntries)
    /\ effects = <<>>
    /\ pending = NoPending
    /\ crashed = FALSE
    /\ boot = BootCleared
    /\ now = AppNow
    /\ tz = UTC
    /\ dash = Dashboard(journalEntries.items, moodEntries.items, now, tz)
    /\ analytics = AnalyticsNotRendered
    /\ journalForm = FormUnmounted
    /\ calendar = CalendarNotRendered
    /\ moodForm = MoodFormUnmounted
    /\ chat = ChatNeverMounted

\* <Input value={input} onChange={(e) => setInput(e.target.value)} disabled={isLoading} />
ChatSetInput(text) ==
    /\ Idle
    /\ chat.mounted
    /\ ~chat.isLoading
    /\ chat' = [chat EXCEPT !.input = text]
    /\ pending' = Handled(pending)
    /\ UNCHANGED <<journalEntries, moodEntries, activeTab, selectedDate, lsJournal,
                   lsMood, effects, crashed, boot, now, dash, analytics,
                   journalForm, tz, calendar, moodForm>>

\* sendMessage, up to the await of fetch
ChatSendMessage ==
    /\ Idle
    /\ chat.mounted
    /\ ~(Trim(chat.input) = "" \/ chat.isLoading)
    /\ chat.sent < MaxChatTurns
    /\ chat' = AfterSend(chat)
    /\ effects' = <<"chatSave">>
    /\ pending' = Handled(pending)
    /\ UNCHANGED <<journalEntries, moodEntries, activeTab, selectedDate, lsJournal,
                   lsMood, crashed, boot, now, dash, analytics,
                   journalForm, tz, calendar, moodForm>>

\* sendMessage, from the await on: fetch rejects (the server was not
\* reached) or resolves with the response of the server's /chat handler.
\* The continuation sets the state of the component that sent the request,
\* for Rerender to show; when that component has been unmounted the updates
\* are dropped.
ChatFetchSettles(request, rejected, apiKey, gemini) ==
    /\ request \in chat.requests
    /\ chat' = AfterFetch(chat, request, rejected,
                          ServerChat(request.message, apiKey, gemini))
    /\ UNCHANGED <<journalEntries, moodEntries, activeTab, selectedDate,
                   lsJournal, lsMood, effects, pending, crashed, boot, now,
                   dash, analytics, journalForm, tz, calendar, moodForm>>

\* clearChat
ChatClear ==
    /\ Idle
    /\ chat.mounted
    /\ chat' = SetMessages(chat, <<Greeting>>, <<Greeting>>, TRUE)
    /\ effects' = <<"chatSave">>
    /\ pending' = Handled(pending)
    /\ UNCHANGED <<journalEntries, moodEntries, activeTab, selectedDate, lsJournal,
                   lsMood, crashed, boot, now, dash, analytics,
                   journalForm, tz, calendar, moodForm>>

\* some request in flight settles, in one of the ways it can
ChatSettle ==
    \E request \in chat.requests, rejected \in BOOLEAN, apiKey \in BOOLEAN,
       gemini \in GeminiOutcomes :
        ChatFetchSettles(request, rejected, apiKey, gemini)

NextChat ==
    \/ ChatLoadEffect
    \/ ChatSaveEffect
    \/ Rerender
    \/ \E item \in Tabs : SidebarClick(item)
    \/ \E text \in ChatInputs : ChatSetInput(text)
    \/ ChatSendMessage
    \/ ChatSettle
    \/ ChatClear

SpecChat == InitChat /\ [][NextChat]_vars

\* The effects of a commit and the re-render of the updates waiting are
\* never put off for ever.  Nothing makes a fetch settle: sendMessage sets
\* no timeout and aborts nothing.
SpecChatLive ==
    /\ SpecChat
    /\ WF_vars(ChatLoadEffect) /\ WF_vars(ChatSaveEffect) /\ WF_vars(Rerender)

-----------------------------------------------------------------------------
(* Properties of the entry stores *)

IdsOf(entries) == {entries[i].id : i \in 1..Len(entries)}
Range(entries) == {entries[i] : i \in 1..Len(entries)}

\* after is before with the entry of that id, and only it, replaced where it was
ReplacedInPlace(before, after, entry) ==
    /\ Len(after) = Len(before)
    /\ \A i \in 1..Len(before) :
          after[i] = IF before[i].id = entry.id THEN entry ELSE before[i]

\* the collection a pending save effect is about to overwrite in localStorage
PersistedItems(stored) == stored.val.items

HoldsCollection(stored) == stored.tag = "json" /\ IsArray(stored.val)

\* C1: saving an entry whose id is already in the store replaces it at its
\* index; the length and every other entry stay as they were (both stores).
\* The mood form of the App never holds a stored id, so for the mood store
\* the updater of handleSaveMoodEntry is applied to an edited copy (its mood
\* scale mirrored, which always changes it) of every entry of every mood
\* collection the App reaches, collections of three entries among them.
C1_ReplaceInPlace ==
    [][/\ \A e \in FormJournalEntries :
             (handleSaveJournalEntry(e) /\ e.id \in IdsOf(journalEntries.items))
                 => ReplacedInPlace(journalEntries.items, journalEntries'.items, e)
       /\ IsArray(moodEntries) =>
             \A i \in 1..Len(moodEntries.items) :
                LET e == [moodEntries.items[i] EXCEPT !.mood = 11 - @]
                IN  ReplacedInPlace(moodEntries.items,
                                    Upsert(moodEntries.items, e), e)]_vars

\* the journal store [A,B,C] has just become [A,B',C] (the save effect is
\* still to run, so localStorage holds the collection as it was before the
\* save) while the mood store holds three entries [A,B,C] that three submits
\* appended
C1_Witness ==
    /\ effects = <<"saveJournal">>
    /\ HoldsCollection(lsJournal)
    /\ LET old == PersistedItems(lsJournal)
           cur == journalEntries.items
       IN  /\ Len(old) = 3 /\ Len(cur) = 3
           /\ \A i \in 1..3 : cur[i].id = old[i].id
           /\ cur[1] = old[1] /\ cur[2] # old[2] /\ cur[3] = old[3]
    /\ Len(moodEntries.items) = 3
    /\ \A i \in 1..3 : moodEntries.items[i].id = i

UniqueIds(entries) ==
    \A i, j \in 1..Len(entries) : entries[i].id = entries[j].id => i = j

\* C2: no two entries of a store have the same id, in any state the saves
\* reach; and since the mood form never saves under a stored id, also in the
\* collection the updater of handleSaveMoodEntry makes of the mood store when
\* it is handed an edited copy of any of its entries.
C2_UniqueIds ==
    /\ IsArray(journalEntries) => UniqueIds(journalEntries.items)
    /\ IsArray(moodEntries) =>
          /\ UniqueIds(moodEntries.items)
          /\ \A i \in 1..Len(moodEntries.items) :
                UniqueIds(Upsert(moodEntries.items,
                                 [moodEntries.items[i] EXCEPT !.mood = 11 - @]))

\* a journal entry was saved again under its id while the journal store
\* holds three entries, and three submits have filled the mood store
C2_Witness ==
    /\ effects = <<"saveJournal">>
    /\ HoldsCollection(lsJournal)
    /\ Len(journalEntries.items) = MaxJournalId
    /\ Len(PersistedItems(lsJournal)) = MaxJournalId
    /\ journalEntries.items # PersistedItems(lsJournal)
    /\ Len(moodEntries.items) = MaxMoodId
    /\ Len(moodEntries.items) >= 3

\* C3: saving an entry identical to one the store holds (the state any save
\* of that entry leaves) changes neither length, order nor contents.  For the
\* mood store, whose form never holds a stored entry, the updater of
\* handleSaveMoodEntry is applied to every entry of every collection reached.
C3_Idempotent ==
    [][/\ \A e \in FormJournalEntries :
             (handleSaveJournalEntry(e) /\ e \in Range(journalEntries.items))
                 => journalEntries' = journalEntries
       /\ IsArray(moodEntries) =>
             \A i \in 1..Len(moodEntries.items) :
                Upsert(moodEntries.items, moodEntries.items[i]) = moodEntries.items]_vars

\* a save has just run and left the collection equal to the persisted one
C3_Witness ==
    /\ effects = <<"saveJournal">>
    /\ Len(journalEntries.items) >= 2
    /\ lsJournal = JSONStringify(journalEntries)

\* C4: over every step from a collection to a collection ids stay and the
\* length does not decrease, and a save into a collection under an id that
\* is not in it appends the entry at the end.
C4_Retention ==
    [][/\ (IsArray(journalEntries) /\ IsArray(journalEntries')) =>
             /\ IdsOf(journalEntries.items) \subseteq IdsOf(journalEntries'.items)
             /\ Len(journalEntries.items) <= Len(journalEntries'.items)
       /\ (IsArray(moodEntries) /\ IsArray(moodEntries')) =>
             /\ IdsOf(moodEntries.items) \subseteq IdsOf(moodEntries'.items)
             /\ Len(moodEntries.items) <= Len(moodEntries'.items)
       /\ \A e \in FormJournalEntries :
             (/\ handleSaveJournalEntry(e)
              /\ IsArray(journalEntries)
              /\ e.id \notin IdsOf(journalEntries.items))
                 => journalEntries'.items = Append(journalEntries.items, e)
       /\ (/\ MoodFormSubmit
           /\ IsArray(moodEntries)
           /\ moodForm.formData.id \notin IdsOf(moodEntries.items))
             => moodEntries'.items = Append(moodEntries.items, moodForm.formData)]_vars

\* an entry with a new id has just been appended to a store of two
C4_Witness ==
    /\ effects = <<"saveJournal">>
    /\ HoldsCollection(lsJournal)
    /\ LET old == PersistedItems(lsJournal)
           cur == journalEntries.items
       IN  /\ Len(old) = 2 /\ Len(cur) = 3
           /\ SubSeq(cur, 1, 2) = old
           /\ cur[3].id \notin IdsOf(old)

\* C5: no navigation, hence no evaluation of the Dashboard or the Analytics
\* view, changes the journal or the mood collection.
C5_AggregationPure ==
    [][(\E item \in Tabs : SidebarClick(item))
           => UNCHANGED <<journalEntries, moodEntries>>]_vars

-----------------------------------------------------------------------------
(* Properties of startup and persistence *)

\* the mount effects and the re-render they cause have run; no user event yet
StartupDone ==
    /\ boot.live
    /\ effects = <<>>
    /\ ~pending.journal.set /\ ~pending.mood.set

\* the item is text that JSON.parse rejects
Undecodable(stored) == stored.tag = "garbage"

\* the item is JSON text of something that is not an array
WrongShape(stored) == stored.tag = "json" /\ ~IsArray(stored.val)

\* the collection a key should start with: the persisted one, else the empty one
StartsWith(stored) == IF HoldsCollection(stored) THEN stored.val ELSE JArr(<<>>)

\* C6: when the text under one key is not JSON (and the other key holds no
\* value of the wrong shape), startup ends without a crash, with that store
\* empty and the other store holding the other key's collection.
C6_DecodeFailure ==
    StartupDone =>
        /\ (Undecodable(boot.journal) /\ ~WrongShape(boot.mood)) =>
              /\ ~crashed
              /\ journalEntries = JArr(<<>>)
              /\ moodEntries = StartsWith(boot.mood)
        /\ (Undecodable(boot.mood) /\ ~WrongShape(boot.journal)) =>
              /\ ~crashed
              /\ moodEntries = JArr(<<>>)
              /\ journalEntries = StartsWith(boot.journal)

\* startup is over, the journal key held text that is not JSON and the mood
\* key a collection of one entry, which is the mood store now
C6_Witness ==
    /\ StartupDone
    /\ Undecodable(boot.journal)
    /\ HoldsCollection(boot.mood)
    /\ Len(moodEntries.items) = 1
    /\ journalEntries = JArr(<<>>)
    /\ lsMood = boot.mood

\* C7: when a key holds JSON that is not an array, startup ends without a
\* crash and with that store empty.
C7_WrongShape ==
    StartupDone =>
        /\ WrongShape(boot.journal) => (~crashed /\ journalEntries = JArr(<<>>))
        /\ WrongShape(boot.mood) => (~crashed /\ moodEntries = JArr(<<>>))

\* C8: a save whose render succeeds queues the save effect of its store and
\* writes nothing itself; the save effect of the other store is queued with
\* it only to write again the text its key holds (a save handled while the
\* other store replays an updater); and the step that runs a save effect
\* leaves under its key the serialization of the whole collection as it then
\* is, the other key as it was.
C8_PersistOnMutation ==
    [][/\ ((\E e \in FormJournalEntries : handleSaveJournalEntry(e)) /\ ~crashed') =>
             /\ effects' \in {<<"saveJournal">>, <<"saveJournal", "saveMood">>}
             /\ UNCHANGED <<lsJournal, lsMood>>
             /\ effects' # <<"saveJournal">> => lsMood = JSONStringify(moodEntries')
       /\ (MoodFormSubmit /\ ~crashed') =>
             /\ effects' \in {<<"saveMood">>, <<"saveJournal", "saveMood">>}
             /\ UNCHANGED <<lsJournal, lsMood>>
             /\ effects' # <<"saveMood">> => lsJournal = JSONStringify(journalEntries')
       /\ (effects # <<>> /\ Head(effects) = "saveJournal") =>
             /\ effects' = Tail(effects)
             /\ lsJournal' = JSONStringify(journalEntries')
             /\ journalEntries' = journalEntries
             /\ lsMood' = lsMood
       /\ (effects # <<>> /\ Head(effects) = "saveMood") =>
             /\ effects' = Tail(effects)
             /\ lsMood' = JSONStringify(moodEntries')
             /\ moodEntries' = moodEntries
             /\ lsJournal' = lsJournal]_vars

\* a journal save has been persisted: three entries in the store (startup
\* loads one at most) and the same three under the key
C8_Witness ==
    /\ Idle
    /\ ~boot.live
    /\ activeTab = "dashboard"
    /\ Len(journalEntries.items) = 3
    /\ lsJournal = JSONStringify(journalEntries)
    /\ HoldsCollection(lsMood)

-----------------------------------------------------------------------------
(* Properties of the Dashboard *)

\* fractions that denote the same number
SameNumber(a, b) == a.den # 0 /\ b.den # 0 /\ a.num * b.den = b.num * a.den

\* the values f takes in the entries, each weighted by how many entries take it
RECURSIVE WeightedSum(_, _)
WeightedSum(values, weight) ==
    IF values = {} THEN 0
    ELSE LET v == CHOOSE x \in values : TRUE
         IN  v * weight[v] + WeightedSum(values \ {v}, weight)

\* is m the arithmetic mean of the values at key k of the entries (0 of none)?
IsMeanOf(m, entries, k) ==
    LET values == {entries[i][k] : i \in 1..Len(entries)}
        weight == [v \in values |-> Cardinality({i \in 1..Len(entries) : entries[i][k] = v})]
    IN  IF entries = <<>>
        THEN SameNumber(m, Zero)
        ELSE m.den # 0 /\ m.num * Len(entries) = WeightedSum(values, weight) * m.den

\* C9: each 7-day average of the Dashboard is the arithmetic mean of its
\* field over the entries of the window, one term per entry, and 0 when the
\* window is empty.
C9_RollingMean ==
    dash.rendered =>
        /\ IsMeanOf(dash.avgMood, dash.recentMoodEntries, "mood")
        /\ IsMeanOf(dash.avgAnxiety, dash.recentMoodEntries, "anxiety")
        /\ IsMeanOf(dash.avgEnergy, dash.recentMoodEntries, "energy")
        /\ IsMeanOf(dash.avgStress, dash.recentMoodEntries, "stress")
        /\ IsMeanOf(dash.avgSleep, dash.recentJournalEntries, "sleepHours")
        /\ IsMeanOf(dash.avgStudy, dash.recentJournalEntries, "studyHours")

\* three mood entries in the window, two of them of one day, with a mean
\* that is not the mean of the daily means; one entry outside the window
C9_Witness ==
    /\ dash.rendered
    /\ Len(dash.recentMoodEntries) = 3
    /\ Len(dash.recentJournalEntries) = 1
    /\ Len(journalEntries.items) = 2
    /\ ISODate(dash.recentMoodEntries[1].timestamp) = ISODate(dash.recentMoodEntries[2].timestamp)
    /\ ISODate(dash.recentMoodEntries[3].timestamp) # ISODate(dash.recentMoodEntries[1].timestamp)
    /\ dash.recentMoodEntries[1].mood # dash.recentMoodEntries[2].mood
    /\ dash.avgMood.num = 13 /\ dash.avgMood.den = 3

\* the first calendar day of the window: seven days before today
SinceDate(t) == Today(t) - WindowDays

\* C10: the window holds exactly the entries dated on or after the day seven
\* days before today, whatever the time of day.
C10_WindowMembership ==
    dash.rendered =>
        /\ LET InWindow(e) == e.date >= SinceDate(now)
           IN  dash.recentJournalEntries = SelectSeq(journalEntries.items, InWindow)
        /\ LET InWindow(e) == ISODate(e.timestamp) >= SinceDate(now)
           IN  dash.recentMoodEntries = SelectSeq(moodEntries.items, InWindow)

-----------------------------------------------------------------------------
(* Medication adherence *)

\* the medication records of a set of entries, pooled: <<entry, record>> positions
MedRecords(entries) ==
    UNION {{<<i, j>> : j \in 1..Len(entries[i].medications)} : i \in 1..Len(entries)}

\* 100 * taken / total over the pooled records, 0 when there are none
PooledAdherence(entries) ==
    LET total == Cardinality(MedRecords(entries))
        taken == Cardinality({p \in MedRecords(entries) : entries[p[1]].medications[p[2]]})
    IN  IF total = 0 THEN Zero ELSE Frac(100 * taken, total)

InPercentRange(f) == 0 <= f.num /\ f.num <= 100 * f.den

\* C11: the weekly adherence figure of the Dashboard and of the Analytics
\* view is 100 * taken / total over the medication records of the entries it
\* covers, pooled (the Analytics figure being shown rounded), is 0 when there
\* are no records, and lies in [0, 100].
C11_AdherencePooled ==
    /\ dash.rendered =>
          /\ SameNumber(dash.medicationAdherence, PooledAdherence(dash.recentJournalEntries))
          /\ InPercentRange(dash.medicationAdherence)
    /\ analytics.rendered =>
          LET covered == Slice(journalEntries.items, AdherenceEntries)
          IN  /\ analytics.weeklyAdherence = Round(PooledAdherence(covered))
              /\ 0 <= analytics.weeklyAdherence /\ analytics.weeklyAdherence <= 100

\* The Dashboard's part of C11 taken alone
DashboardAdherencePooled ==
    dash.rendered =>
        /\ SameNumber(dash.medicationAdherence, PooledAdherence(dash.recentJournalEntries))
        /\ InPercentRange(dash.medicationAdherence)
        /\ (dash.totalMeds = 0 => dash.medicationAdherence = Zero)

-----------------------------------------------------------------------------
(* The alerts of the Dashboard *)

AlertOrder ==
    <<"Low mood", "High anxiety", "Sleep deficit", "Low adherence",
      "Psychotic-symptom frequency", "All-clear", "No-data">>

\* the place of an alert in the fixed order
AlertRank(alert) == CHOOSE r \in 1..Len(AlertOrder) : AlertOrder[r] = alert

Emitted(alert) == \E i \in 1..Len(dash.alerts) : dash.alerts[i] = alert

\* the condition of each rule, on the aggregates the Dashboard computed
RuleHolds(alert) ==
    CASE alert = "Low mood" -> Lt(dash.avgMood, 4)
      [] alert = "High anxiety" -> Gt(dash.avgAnxiety, 7)
      [] alert = "Sleep deficit" -> Lt(dash.avgSleep, 6)
      [] alert = "Low adherence" -> Lt(dash.medicationAdherence, 80) /\ dash.totalMeds > 0
      [] alert = "Psychotic-symptom frequency" -> dash.psychoticSymptomDays > 3
      [] alert = "All-clear" ->
             /\ Ge(dash.avgMood, 7) /\ Le(dash.avgAnxiety, 3)
             /\ Ge(dash.avgSleep, 7) /\ Ge(dash.medicationAdherence, 90)
      [] alert = "No-data" ->
             /\ Eq(dash.avgMood, 0) /\ Eq(dash.avgAnxiety, 0)
             /\ Len(dash.recentMoodEntries) = 0

\* C12: whatever the aggregates, each of the seven rules is emitted exactly
\* when its own condition holds, whether or not another rule is emitted, and
\* the emitted alerts appear in the fixed order, each once.
C12_AlertEvaluation ==
    dash.rendered =>
        /\ \A r \in 1..Len(AlertOrder) : Emitted(AlertOrder[r]) <=> RuleHolds(AlertOrder[r])
        /\ \A i \in 1..Len(dash.alerts) : \E r \in 1..Len(AlertOrder) : dash.alerts[i] = AlertOrder[r]
        /\ \A i, j \in 1..Len(dash.alerts) :
              i < j => AlertRank(dash.alerts[i]) < AlertRank(dash.alerts[j])

\* five alerts at once: the first five rules all hold
C12_Witness ==
    /\ dash.rendered
    /\ dash.alerts = SubSeq(AlertOrder, 1, 5)

\* the sum of the values at key k of the entries
TotalOf(entries, k) ==
    LET values == {entries[i][k] : i \in 1..Len(entries)}
        weight == [v \in values |-> Cardinality({i \in 1..Len(entries) : entries[i][k] = v})]
    IN  WeightedSum(values, weight)

\* C13: High anxiety is emitted exactly when the unrounded mean anxiety of
\* the window is strictly greater than 7: the sum of the anxiety values
\* exceeds 7 times the number of entries.  A mean of exactly 7 does not
\* trigger it; a mean of 7.01, shown as 7.0, does.
C13_HighAnxiety ==
    dash.rendered =>
        (Emitted("High anxiety") <=>
            TotalOf(dash.recentMoodEntries, "anxiety") > 7 * Len(dash.recentMoodEntries))

\* a mean of 701 / 100 = 7.01 triggers the alert
C13_Witness ==
    /\ dash.rendered
    /\ Len(dash.recentMoodEntries) = 100
    /\ TotalOf(dash.recentMoodEntries, "anxiety") = 701
    /\ Emitted("High anxiety")

\* C14: Low adherence is emitted exactly when the window holds at least one
\* medication record and 100 * taken / total over its records is below 80;
\* 4 taken of 5 is exactly 80 and does not trigger it, and no record at all
\* never triggers it.
C14_LowAdherence ==
    dash.rendered =>
        LET records == MedRecords(dash.recentJournalEntries)
            total == Cardinality(records)
            taken == Cardinality({p \in records :
                                     dash.recentJournalEntries[p[1]].medications[p[2]]})
        IN  Emitted("Low adherence") <=> (total > 0 /\ 100 * taken < 80 * total)

\* 4 taken of 5: adherence is exactly 80 and the alert is not emitted
C14_Witness ==
    /\ dash.rendered
    /\ Cardinality(MedRecords(dash.recentJournalEntries)) = 5
    /\ SameNumber(PooledAdherence(dash.recentJournalEntries), Frac(80, 1))
    /\ ~Emitted("Low adherence")

\* the days of the window with at least one symptomatic mood entry
SymptomDays(entries) ==
    {ISODate(entries[i].timestamp) :
        i \in {j \in 1..Len(entries) : entries[j].psychoticSymptoms # <<>>}}

\* C15: the Psychotic-symptom frequency alert is emitted exactly when more
\* than 3 distinct days of the window have a mood entry with a non-empty
\* psychoticSymptoms list; several such entries on one day count as one day.
C15_PsychoticDays ==
    dash.rendered =>
        (Emitted("Psychotic-symptom frequency") <=>
            Cardinality(SymptomDays(dash.recentMoodEntries)) > 3)

\* C16: No-data is emitted exactly when the window holds no mood entry, the
\* mean mood and the mean anxiety then being 0, whatever journal entries
\* there are.
C16_NoData ==
    dash.rendered =>
        /\ Emitted("No-data") <=> Len(dash.recentMoodEntries) = 0
        /\ Emitted("No-data") =>
              SameNumber(dash.avgMood, Zero) /\ SameNumber(dash.avgAnxiety, Zero)

\* No-data with a journal entry in the window and a mood entry before it
C16_Witness ==
    /\ dash.rendered
    /\ Emitted("No-data")
    /\ dash.recentJournalEntries # <<>>
    /\ moodEntries.items # <<>>

\* the window holds a single mood entry, with mood 0 and anxiety 0
SingleZeroEntry ==
    /\ dash.rendered
    /\ Len(dash.recentMoodEntries) = 1
    /\ dash.recentMoodEntries[1].mood = 0
    /\ dash.recentMoodEntries[1].anxiety = 0

\* the alerts of the same journal with no mood entry at all
AlertsOfEmptyWindow == Range(Dashboard(journalEntries.items, <<>>, now, tz).alerts)

\* C17 (as stated): a window with a single mood entry of mood 0 and anxiety 0
\* gives exactly the alerts of a window with no mood entry.
C17_ZeroConflation == SingleZeroEntry => Range(dash.alerts) = AlertsOfEmptyWindow

\* C17 (amended): a window with a single mood entry of mood 0 and anxiety 0
\* gives the alerts of a window with no mood entry except No-data, which
\* only the empty window gets.
C17_ZeroEntryVsEmpty ==
    SingleZeroEntry =>
        /\ "No-data" \in AlertsOfEmptyWindow
        /\ Range(dash.alerts) = AlertsOfEmptyWindow \ {"No-data"}

C17_Witness == SingleZeroEntry /\ dash.recentJournalEntries # <<>>

-----------------------------------------------------------------------------
(* One journal entry per date *)

\* C18: in every state reached through the sidebar, the calendar's date
\* selection, date edits in the journal form and saves, no two journal
\* entries of the store have the same date.
C18_OneEntryPerDate ==
    \A i, j \in 1..Len(journalEntries.items) :
        i # j => journalEntries.items[i].date # journalEntries.items[j].date

-----------------------------------------------------------------------------
(* Analytics: grouping by date and the mood trend *)

\* the day a mood entry is grouped under
DateOf(entry) == ISODate(entry.timestamp)

\* the entries of one day, in store order
EntriesOfDate(entries, date) ==
    LET OfDate(e) == DateOf(e) = date
    IN  SelectSeq(entries, OfDate)

\* C19: grouping the mood entries by date partitions them: the groups have
\* distinct keys, none is empty, every entry is in the group keyed by its
\* date and in no other, and a group lists its entries in store order.
C19_GroupingPartitions ==
    analytics.rendered =>
        LET groups == analytics.moodByDate
            entries == moodEntries.items
        IN  /\ \A g, h \in 1..Len(groups) : g # h => groups[g].date # groups[h].date
            /\ \A g \in 1..Len(groups) :
                  /\ groups[g].entries # <<>>
                  /\ groups[g].entries = EntriesOfDate(entries, groups[g].date)
            /\ \A i \in 1..Len(entries) :
                  \E g \in 1..Len(groups) : groups[g].date = DateOf(entries[i])

\* two entries of one day with an entry of another day stored between them:
\* two keys, the first with its two entries in store order
C19_Witness ==
    /\ analytics.rendered
    /\ Len(moodEntries.items) = 3
    /\ Len(analytics.moodByDate) = 2
    /\ analytics.moodByDate[1].entries = <<moodEntries.items[1], moodEntries.items[3]>>
    /\ analytics.moodByDate[2].entries = <<moodEntries.items[2]>>

\* the distinct dates that have a mood entry
MoodDates == {DateOf(moodEntries.items[i]) : i \in 1..Len(moodEntries.items)}

\* C20: the mood trend has one point for each of the most recent 30 distinct
\* dates that have a mood entry (all of them when there are fewer), in
\* strictly ascending date order, whatever the order of the entries in the
\* store; a point counts the entries of its date.
C20_TrendWindow ==
    analytics.rendered =>
        LET trend == analytics.moodTrendData
            keys == {trend[i].key : i \in 1..Len(trend)}
        IN  /\ Len(trend) <= TrendDays
            /\ Len(trend) = IF Cardinality(MoodDates) > TrendDays
                            THEN TrendDays ELSE Cardinality(MoodDates)
            /\ \A i, j \in 1..Len(trend) : i < j => trend[i].key < trend[j].key
            /\ keys \subseteq MoodDates
            /\ \A d \in MoodDates \ keys : \A k \in keys : d < k
            /\ \A i \in 1..Len(trend) :
                  trend[i].count = Len(EntriesOfDate(moodEntries.items, trend[i].key))

\* more than 30 dates, stored latest first: the series is cut to 30 points
C20_Witness ==
    /\ analytics.rendered
    /\ Cardinality(MoodDates) > TrendDays
    /\ Len(analytics.moodTrendData) = TrendDays
    /\ DateOf(moodEntries.items[1]) > DateOf(moodEntries.items[2])

-----------------------------------------------------------------------------
(* No-data and Low mood *)

\* C30: whenever the No-data alert is emitted, the Low mood alert is emitted
\* in the same evaluation: the mean mood of an empty window is 0, which is
\* below 4.
C30_NoDataImpliesLowMood ==
    (dash.rendered /\ Emitted("No-data")) => Emitted("Low mood")

\* a journal in good order and no mood entry: Low mood and No-data, nothing else
C30_Witness ==
    /\ dash.rendered
    /\ dash.recentJournalEntries # <<>>
    /\ dash.alerts = <<"Low mood", "No-data">>

-----------------------------------------------------------------------------
(* Daily averages and date keys *)

\* C21: the daily average of a date is the arithmetic mean of the mood of
\* its entries (4, 6 and 8 give 6) and is absent, not 0, for a date with no
\* entry; the averages of the mood trend, taken over groups that are never
\* empty, are the means of their groups, shown to one decimal.
C21_DailyAverage ==
    /\ calendar.rendered =>
          \A day \in DOMAIN calendar.cells :
              LET cell == calendar.cells[day]
              IN  IF cell.moodEntries = <<>>
                  THEN cell.avgMood = Null
                  ELSE /\ ~cell.avgMood.isNull
                       /\ IsMeanOf(cell.avgMood.value, cell.moodEntries, "mood")
    /\ analytics.rendered =>
          \A i \in 1..Len(analytics.moodTrendData) :
              LET point == analytics.moodTrendData[i]
                  group == EntriesOfDate(moodEntries.items, point.key)
              IN  /\ group # <<>>
                  /\ point.mood =
                        Round1(Frac(TotalOf(group, "mood"), Len(group)))
                  /\ point.anxiety =
                        Round1(Frac(TotalOf(group, "anxiety"), Len(group)))

\* a day with moods 4, 6 and 8 averages to 6 next to a day without entries
C21_Witness ==
    /\ calendar.rendered
    /\ \E day \in DOMAIN calendar.cells :
          /\ Len(calendar.cells[day].moodEntries) = 3
          /\ {calendar.cells[day].moodEntries[i].mood : i \in 1..3} = {4, 6, 8}
          /\ SameNumber(calendar.cells[day].avgMood.value, Frac(6, 1))
    /\ \E day \in DOMAIN calendar.cells : calendar.cells[day].avgMood = Null

\* C22: whatever the timezone, the cell of local day D looks up, shows and
\* selects by the date key D: its journal entry is the first one dated D,
\* its mood entries are those whose stored timestamp has the date portion D,
\* and its click selects D.
C22_TimezoneNaive ==
    calendar.rendered =>
        \A day \in DOMAIN calendar.cells :
            /\ calendar.cells[day].dateString = day
            /\ calendar.cells[day].moodEntries = EntriesOfDate(moodEntries.items, day)
            /\ calendar.cells[day].journalEntry =
                  GetSelectedJournalEntry(journalEntries.items, day)

-----------------------------------------------------------------------------
(* Multiple mood samples *)

\* a submit of the mood form: the only step of the mood runs that queues the
\* save effect
MoodSubmitStep == effects = <<>> /\ effects' = <<"saveMood">>

\* C24: in the mood tracker opened for a new entry every submit stores a
\* distinct entry: it appends the form's entry to the mood collection, whose
\* length grows by exactly one (so by k over k submits, with or without edits
\* in between), and leaves the form reset to an id no stored entry has.
C24_SubmitsAppend ==
    [][MoodSubmitStep =>
         /\ moodEntries'.items = Append(moodEntries.items, moodForm.formData)
         /\ Len(moodEntries'.items) = Len(moodEntries.items) + 1
         /\ moodForm'.mounted
         /\ moodForm'.formData.id \notin IdsOf(moodEntries'.items)]_vars

\* two submits in a row from the empty collection, the first of the blank
\* form and the second after edits of a slider, a symptom and the date; the
\* last save effect has not run yet
C24_Witness ==
    /\ Len(moodEntries.items) = 2
    /\ Cardinality(IdsOf(moodEntries.items)) = 2
    /\ moodEntries.items[1] = [BlankMoodForm(<<>>, AppNow) EXCEPT !.id = moodEntries.items[1].id]
    /\ moodEntries.items[2].anxiety = 8
    /\ moodEntries.items[2].psychoticSymptoms = <<"Halusinasi visual">>
    /\ moodEntries.items[2].timestamp = AppNow - TicksPerDay
    /\ effects = <<"saveMood">>
    /\ lsMood = JSONStringify(JArr(SubSeq(moodEntries.items, 1, 1)))
    /\ moodForm.mounted

-----------------------------------------------------------------------------
(* Journal form identity *)

\* a save of the journal form: the only step that leaves the journal tab for
\* the dashboard and queues the save effect
JournalSaveStep ==
    activeTab = "journal" /\ activeTab' = "dashboard" /\ effects' = <<"saveJournal">>

\* C25: after any navigation, the journal form saves under the id of the
\* entry whose fields it loaded when it was mounted, or under a fresh id when
\* it loaded none: a save changes no stored entry but the one that was loaded,
\* and with no entry loaded it appends an entry with an id the store did not
\* have.
C25_FormIdentity ==
    [][JournalSaveStep =>
         LET loaded == journalForm.entry.id
             before == journalEntries.items
             after == journalEntries'.items
         IN  IF loaded # NoId
             THEN /\ Len(after) = Len(before)
                  /\ \A i \in 1..Len(before) :
                        after[i] # before[i] => before[i].id = loaded
                  /\ loaded \in IdsOf(after)
             ELSE /\ Len(after) = Len(before) + 1
                  /\ SubSeq(after, 1, Len(before)) = before
                  /\ after[Len(after)].id \notin IdsOf(before)]_vars

-----------------------------------------------------------------------------
(* Form-to-store fidelity *)

\* the entry a save of the journal form has put in the store: the one in the
\* place of the existing entry of the selected date, or the new last one
SavedJournalEntry(before, after, sel) ==
    LET existingEntry == GetSelectedJournalEntry(before, sel)
    IN  IF existingEntry.found
        THEN after[FindIndex(before, existingEntry.entry.id) + 1]
        ELSE after[Len(after)]

\* C26: the entry the journal form hands to the store carries exactly the
\* sleepHours, sleepQuality and studyHours set in the form; no value of the
\* sliders' domains, sleepHours = 0 included, is replaced by a default.
C26_FormFidelity ==
    [][JournalSaveStep =>
         LET saved == SavedJournalEntry(journalEntries.items, journalEntries'.items,
                                        selectedDate)
         IN  /\ saved.sleepHours = journalForm.entry.sleepHours
             /\ saved.sleepQuality = journalForm.entry.sleepQuality
             /\ saved.studyHours = journalForm.entry.studyHours]_vars

-----------------------------------------------------------------------------
(* Startup and the persisted data *)

\* C27: when both keys hold decodable collections, then from mount until the
\* first user event neither key's persisted collection is replaced by the
\* empty collection, and once the load effect, the two save effects and the
\* re-render have run each key holds the collection it held before startup
\* and the stores equal those collections.
C27_StartupKeepsData ==
    (boot.live /\ HoldsCollection(boot.journal) /\ HoldsCollection(boot.mood)) =>
        /\ boot.journal.val # JArr(<<>>) => lsJournal # JSONStringify(JArr(<<>>))
        /\ boot.mood.val # JArr(<<>>) => lsMood # JSONStringify(JArr(<<>>))
        /\ StartupDone =>
              /\ lsJournal = boot.journal /\ journalEntries = boot.journal.val
              /\ lsMood = boot.mood /\ moodEntries = boot.mood.val

-----------------------------------------------------------------------------
(* The chat *)

\* the ways the text service fails: the call throws, the status is not 2xx,
\* the body has no text
GeminiFailures == {"network", "status", "missing"}

\* the canned message for a request
Fallback(request) == [type |-> "ai", content |-> "fallback", req |-> request.req]

\* C23: for each chat turn, when the text service fails in one of the three
\* ways (network error, non-2xx status, success without the expected field),
\* the chat gains exactly one message, the canned fallback, in place of a
\* reply; the App does not crash and the journal and mood collections stay
\* as they are.
C23_FailureRecovery ==
    [][/\ \A request \in chat.requests, gemini \in GeminiFailures :
             ChatFetchSettles(request, FALSE, TRUE, gemini) =>
                 /\ chat'.queued.set
                 /\ chat'.queued.val =
                        Append(ChatApplied(chat).messages, Fallback(request))
                 /\ ~crashed'
                 /\ UNCHANGED <<journalEntries, moodEntries, lsJournal, lsMood>>
       /\ (Rerender /\ chat.queued.set) =>
             /\ chat'.messages = chat.queued.val
             /\ ~crashed'
             /\ UNCHANGED <<journalEntries, moodEntries, lsJournal, lsMood>>]_vars

\* C28: in every state of the chat, also after clearChat with a request in
\* flight, every AI message but the greeting comes right after the user
\* message it answers.
C28_ChatPairing ==
    chat.mounted =>
        \A i \in 1..Len(chat.messages) :
            (chat.messages[i].type = "ai" /\ chat.messages[i] # Greeting) =>
                /\ i > 1
                /\ chat.messages[i - 1].type = "user"
                /\ chat.messages[i - 1].req = chat.messages[i].req

\* the request numbered n is in flight
InFlight(n) == \E request \in chat.requests : request.req = n

\* the AI messages the list holds for the request numbered n
AiMessagesFor(n) ==
    {i \in 1..Len(chat.messages) :
        chat.messages[i].type = "ai" /\ chat.messages[i].req = n}

\* the request numbered n has just ended: isLoading is false again and the
\* last message is the AI message appended for it, the only one for it
Answered(n) ==
    /\ ~InFlight(n)
    /\ chat.mounted /\ ~chat.isLoading
    /\ Cardinality(AiMessagesFor(n)) = 1
    /\ Len(chat.messages) \in AiMessagesFor(n)

\* C29: at most one chat request is in flight at any time, and every request
\* that is sent ends, by success or by failure, with isLoading false again
\* and exactly one AI message appended for it.
C29_RequestDiscipline ==
    /\ [](Cardinality(chat.requests) <= 1)
    /\ \A n \in 1..MaxChatTurns : InFlight(n) ~> Answered(n)

=============================================================================
